---- MODULE Spec2Model ----
(***************************************************************************)
(* Verification model of the activity-tracker API: the batched ingestion   *)
(* pipeline (ApiLogRepository), the sliding-window rate limiter            *)
(* (RateLimiterService), the HTTP middleware chain of the client router    *)
(* and the KV gateway connection state (RedisService).                     *)
(***************************************************************************)
EXTENDS Integers, Sequences, FiniteSets, TLC

(***************************************************************************)
(* Bounds of the model                                                     *)
(***************************************************************************)
\* number of activity records that are ever submitted
MaxRecords == 3
\* records submitted where the length of the pending batch is at stake
ManyRecords == 5
\* number of flushBatch invocations that may be in progress at once
MaxFlush == 2
\* batchSize of the repository (default 100), scaled down
BatchSize == 2
\* the re-queue safety cap of flushBatch (1000 in the source), scaled down
RequeueCap == 2
\* max_size of the overflow buffer (default 10,000), scaled down
OverflowMax == 2

\* last instant of the clock (Date.now(), in scaled milliseconds)
MaxTime == 3
\* windowSize * 1000 of the rate limiter (3,600,000 ms), scaled down
WindowMs == 2
\* env.API_RATE_LIMIT, the limiter's default maxRequests, scaled down
DefaultLimit == 2
\* number of checkRateLimit calls that are ever made
MaxChecks == 4
\* number of server processes sharing the KV store
MaxProcs == 2
\* number of values math.random() can return inside the script
RandVals == 2

\* number of HTTP requests that are ever received
MaxRequests == 3
\* analytics: the most api_log rows inside the analytics window
MaxRows == 2
\* live updates: the most logs posted
MaxLogs == 2
\* registration: the register calls made
MaxRegs == 3

\* trackAccess calls made in a behaviour
MaxAccesses == 3

\* live subscribers: sockets, and messages received on api:log:new
MaxSockets == 2
MaxMsgs == 3

\* hot keys: the largest argument of a call, the characters after the prefix
MaxArg == 12
MaxRest == 3

\* KV gateway clients: the connectDirectly calls made, and the disconnect
\* calls made on the clients of one connectDirectly
MaxConnects == 5
MaxDisconnects == 3

\* maxRetries of withDatabaseRetry
MaxRetries == 3
\* maxReconnectAttempts of RedisService
maxReconnectAttempts == 5

VARIABLES
    \* ---- ingestion pipeline (ApiLogRepository) ----
    batchQueue,     \* this.batchQueue: sequence of record ids
    flushTask,      \* the flushBatch invocations in progress, by slot
    memStore,       \* inMemoryLogStorage: sequence of [rec]
    durable,        \* rows of the api_log table, in insertion order
    dropLog,        \* record ids named by a "dropped" log entry
    db,             \* what repository.save does now: DbUp or an error
    nextRec,        \* id of the next record to be submitted
    \* ---- rate limiter (RateLimiterService) ----
    clock,          \* the wall clock read by Date.now()
    kvUp,           \* whether the KV store answers
    zset,           \* the sorted sets rate_limit:<clientId> of the KV store
    inMemoryStore,  \* this.inMemoryStore of each process: timestamps by client
    rlPending,      \* per process: the eval sent to the KV store, not yet run
    rlAllowed,      \* per client: how many checks were allowed, by their `now`
    rlFallback,     \* clients for which some check was decided in process
    rlChecks,       \* number of checkRateLimit calls made so far
    \* ---- HTTP middleware chain (clientRouter) ----
    req,            \* the request being served, with its position in the chain
    lastResp,       \* the response just sent, until the next request arrives
    httpCount,      \* number of requests received so far
    \* ---- KV gateway connection (RedisService) ----
    isConnected,        \* this.isConnected
    reconnectAttempts,  \* this.reconnectAttempts
    kvClient,           \* the write and read clients: status and retry count
    serverUp,           \* whether the KV server accepts connections
    lastOp,             \* outcome of the last gateway operation
    \* ---- usage analytics and their cache (ClientService) ----
    usageRows,      \* api_log rows inside the analytics window right now
    cache,          \* the KV entries usage:daily:* and usage:top:*, by key
    call,           \* the analytics call in progress, with its position
    lastCall,       \* how the last analytics call ended
    \* ---- process life cycle (startServer / onCloseSignal) ----
    proc,           \* position in the shutdown handler, steps taken, exit code
    \* ---- live updates (pub/sub fan-out and the SSE stream) ----
    sse,            \* the GET /usage/stream response: channel and events written
    chan,           \* messages published on api:log:new, not yet delivered
    wsLogs,         \* records emitted as log:new to the websocket rooms
    logId,          \* id of the next log to be posted
    tick,           \* the update interval's callback, while it awaits a query
    lateWrites,     \* events handed to writeFn after the response was ended
    \* ---- registration (ClientService.register) ----
    emailUnique,    \* whether the client table rejects a second row of an email
    clientRows,     \* number of rows of the client table, by email
    reg,            \* the register calls: position, email, response status
    \* ---- retry harness (withRetry) ----
    rt,             \* one withRetry call: options, attempt, calls made, delays slept
    \* ---- cache hit tracker (CacheHitTrackerService) ----
    counters,       \* counter key -> its value (0: no such key) and its TTL (-1: none)
    track,          \* trackAccess call -> where it stands and the key it counts on
    accesses,       \* trackAccess calls made so far
    \* ---- live subscribers (WebSocketService) ----
    sockets,        \* socket -> the caller it authenticated as, its rooms, its log:new events
    wsChan,         \* messages received on api:log:new, not yet handed to the callback
    wsCount,        \* number of messages received on api:log:new so far
    \* ---- pre-warming of hot keys (CachePrewarmService.prewarmByCacheKey) ----
    hot,            \* the hot key at hand, the call it was built for, the call it triggered
    \* ---- startup (startServer, CachePrewarmService.prewarmAll) ----
    boot,           \* position of startServer, outcome of each static prewarm entry
    \* ---- KV gateway clients (RedisService.connectDirectly / disconnect) ----
    gw              \* writeClient, readClient, the quits each client got, where disconnect stands

ingestVars == <<batchQueue, flushTask, memStore, durable, dropLog, db, nextRec>>

rateVars == <<clock, kvUp, zset, inMemoryStore, rlPending, rlAllowed, rlFallback,
              rlChecks>>

httpVars == <<req, lastResp, httpCount>>

connVars == <<isConnected, reconnectAttempts, kvClient, serverUp, lastOp>>

analyticsVars == <<usageRows, cache, call, lastCall>>

\* the parts added to the four above
shutdownVars == <<proc>>

streamVars == <<sse, chan, wsLogs, logId, tick, lateWrites>>

registerVars == <<emailUnique, clientRows, reg>>

retryVars == <<rt>>

trackerVars == <<counters, track, accesses>>

wsVars == <<sockets, wsChan, wsCount>>

prewarmKeyVars == <<hot>>

startupVars == <<boot>>

gatewayVars == <<gw>>

restVars ==
    <<analyticsVars,
      shutdownVars,
      streamVars,
      registerVars,
      retryVars,
      trackerVars,
      wsVars,
      prewarmKeyVars,
      startupVars,
      gatewayVars>>

nonIngestVars == <<rateVars, httpVars, connVars, restVars>>

nonRateVars == <<ingestVars, httpVars, connVars, restVars>>

nonAnalyticsVars ==
    <<ingestVars, rateVars, httpVars, connVars,
      shutdownVars, streamVars, registerVars, retryVars,
      trackerVars, wsVars, prewarmKeyVars, startupVars,
      gatewayVars>>

nonShutdownVars ==
    <<ingestVars, rateVars, httpVars, connVars,
      analyticsVars, streamVars, registerVars, retryVars,
      trackerVars, wsVars, prewarmKeyVars, startupVars,
      gatewayVars>>

nonRegisterVars ==
    <<ingestVars, rateVars, httpVars, connVars,
      analyticsVars, shutdownVars, streamVars, retryVars,
      trackerVars, wsVars, prewarmKeyVars, startupVars,
      gatewayVars>>

nonStreamVars ==
    <<ingestVars, rateVars, httpVars, connVars,
      analyticsVars, shutdownVars, registerVars, retryVars,
      trackerVars, wsVars, prewarmKeyVars, startupVars,
      gatewayVars>>

nonRetryVars ==
    <<ingestVars, rateVars, httpVars, connVars,
      analyticsVars, shutdownVars, streamVars, registerVars,
      trackerVars, wsVars, prewarmKeyVars, startupVars,
      gatewayVars>>

nonTrackerVars ==
    <<ingestVars, rateVars, httpVars, connVars,
      analyticsVars, shutdownVars, streamVars, registerVars,
      retryVars, wsVars, prewarmKeyVars, startupVars,
      gatewayVars>>

nonWsVars ==
    <<ingestVars, rateVars, httpVars, connVars,
      analyticsVars, shutdownVars, streamVars, registerVars,
      retryVars, trackerVars, prewarmKeyVars, startupVars,
      gatewayVars>>

nonPrewarmKeyVars ==
    <<ingestVars, rateVars, httpVars, connVars,
      analyticsVars, shutdownVars, streamVars, registerVars,
      retryVars, trackerVars, wsVars, startupVars,
      gatewayVars>>

nonStartupVars ==
    <<ingestVars, rateVars, httpVars, connVars,
      analyticsVars, shutdownVars, streamVars, registerVars,
      retryVars, trackerVars, wsVars, prewarmKeyVars,
      gatewayVars>>

nonGatewayVars ==
    <<ingestVars, rateVars, httpVars, connVars,
      analyticsVars, shutdownVars, streamVars, registerVars,
      retryVars, trackerVars, wsVars, prewarmKeyVars,
      startupVars>>

vars == <<ingestVars, rateVars, httpVars, connVars, restVars>>

(***************************************************************************)
(* Helpers on sequences                                                    *)
(***************************************************************************)
Range(s) == {s[i] : i \in 1..Len(s)}

RECURSIVE SeqRecs(_)
SeqRecs(s) == IF s = <<>> THEN <<>> ELSE <<Head(s).rec>> \o SeqRecs(Tail(s))

(***************************************************************************)
(* Retry harness (retry.utils.ts)                                          *)
(*                                                                         *)
(* An error is abstracted to the marker its name or message contains and   *)
(* whether the marker appears in the exact letter case of the lists.       *)
(***************************************************************************)
RetryableErrors ==
    {"ECONNREFUSED", "ETIMEDOUT", "ENOTFOUND", "EHOSTUNREACH", "connection timeout",
     "connection lost", "deadlock", "lock timeout", "QueryFailedError"}

TransientErrors ==
    {"ECONNREFUSED", "ETIMEDOUT", "ENOTFOUND", "EHOSTUNREACH", "connection timeout",
     "connection lost", "deadlock", "lock timeout", "too many connections",
     "QueryFailedError"}

\* the store answers: repository.save succeeds
DbUp == [marker |-> "up", exactCase |-> TRUE]

\* the errors the store raises in the model
DbErrors ==
    { [marker |-> "ECONNREFUSED", exactCase |-> TRUE],
      [marker |-> "too many connections", exactCase |-> TRUE],
      [marker |-> "none", exactCase |-> TRUE] }

\* withRetry's retryable check: a case-sensitive includes() over retryableErrors
IsRetryable(e) == e.marker \in RetryableErrors /\ e.exactCase

\* isTransientDatabaseError: a lower-cased includes() over transientErrors
isTransientDatabaseError(e) == e.marker \in TransientErrors

\* withRetry's catch block: TRUE when the error is rethrown to the caller
\* after the given attempt, FALSE when the harness sleeps and tries again
RetryGivesUp(e, attempt) == attempt > MaxRetries \/ ~IsRetryable(e)

(***************************************************************************)
(* Overflow buffer (inMemoryLogStorage)                                    *)
(***************************************************************************)
\* a buffer without a bound
OverflowAddUnbounded(store, r) == Append(store, [rec |-> r])

\* add(record): append; beyond max_size the oldest entry is dropped
OverflowAdd(store, r) ==
    LET s == Append(store, [rec |-> r])
    IN  IF Len(s) > OverflowMax THEN Tail(s) ELSE s

\* the record the add above evicts, as a set
OverflowEvicted(store, r) ==
    IF Len(store) + 1 > OverflowMax THEN {Head(Append(store, [rec |-> r])).rec}
    ELSE {}

RECURSIVE OverflowAddAll(_, _)
\* logs.forEach((log) => inMemoryLogStorage.add(log))
OverflowAddAll(store, logs) ==
    IF logs = <<>> THEN store
    ELSE OverflowAddAll(OverflowAdd(store, Head(logs)), Tail(logs))

RECURSIVE OverflowEvictedAll(_, _)
OverflowEvictedAll(store, logs) ==
    IF logs = <<>> THEN {}
    ELSE OverflowEvicted(store, Head(logs))
            \cup OverflowEvictedAll(OverflowAdd(store, Head(logs)), Tail(logs))

(***************************************************************************)
(* Ingestion pipeline (ApiLogRepository)                                   *)
(***************************************************************************)
FlushSlots == 1..MaxFlush

IdleTask == [pc |-> "idle", trigger |-> "none", logsToInsert |-> <<>>,
             inMemoryLogs |-> <<>>, attempt |-> 0]

FreeSlots == {t \in FlushSlots : flushTask[t].pc = "idle"}

\* a flushBatch that copies the queue and does not empty it
flushBatchBeginKeepsQueue(t, trig, queue) ==
    /\ batchQueue' = queue
    /\ memStore' = memStore
    /\ flushTask' = [flushTask EXCEPT ![t] =
            [pc |-> "insert", trigger |-> trig, logsToInsert |-> queue,
             inMemoryLogs |-> <<>>, attempt |-> 1]]

\* flushBatch up to its first await: take the queue, and take the overflow
\* buffer too when it is not empty (flushInMemoryLogs)
flushBatchBegin(t, trig, queue) ==
    /\ batchQueue' = <<>>
    /\ IF memStore # <<>>
       THEN /\ memStore' = <<>>
            /\ flushTask' = [flushTask EXCEPT ![t] =
                    [pc |-> "drain", trigger |-> trig, logsToInsert |-> queue,
                     inMemoryLogs |-> SeqRecs(memStore), attempt |-> 1]]
       ELSE /\ memStore' = memStore
            /\ flushTask' = [flushTask EXCEPT ![t] =
                    [pc |-> "insert", trigger |-> trig, logsToInsert |-> queue,
                     inMemoryLogs |-> <<>>, attempt |-> 1]]

\* a test that lets the batch grow one record beyond the batch size
ExceedsBatchSize(queue) == Len(queue) > BatchSize

\* if (this.batchQueue.length >= this.batchSize)
ReachesBatchSize(queue) == Len(queue) >= BatchSize

\* addToBatch, for the first `records` records of a behaviour: push, and
\* flush when the batch size is reached
addToBatchUpTo(records) ==
    /\ nextRec <= records
    /\ nextRec' = nextRec + 1
    /\ LET queue == Append(batchQueue, nextRec)
       IN  IF ReachesBatchSize(queue)
           THEN /\ FreeSlots # {}
                /\ LET t == CHOOSE x \in FreeSlots : \A y \in FreeSlots : x <= y
                   IN  flushBatchBegin(t, "submit", queue)
           ELSE /\ batchQueue' = queue
                /\ UNCHANGED <<flushTask, memStore>>
    /\ UNCHANGED <<durable, dropLog, db>>

addToBatch == addToBatchUpTo(MaxRecords)

\* a record is handed to addToBatch by a caller of the repository
SubmitRecord ==
    /\ addToBatch
    /\ UNCHANGED nonIngestVars

\* the setInterval callback of startBatchProcessor
BatchTimerTick ==
    /\ UNCHANGED nonIngestVars
    /\ Len(batchQueue) > 0
    /\ FreeSlots # {}
    /\ LET t == CHOOSE x \in FreeSlots : \A y \in FreeSlots : x <= y
       IN  flushBatchBegin(t, "timer", batchQueue)
    /\ UNCHANGED <<durable, dropLog, db, nextRec>>

\* one attempt of the bulk insert inside flushInMemoryLogs
flushInMemoryLogsAttempt(t) ==
    /\ UNCHANGED nonIngestVars
    /\ flushTask[t].pc = "drain"
    /\ LET task == flushTask[t]
       IN  IF db = DbUp
           THEN /\ durable' = durable \o task.inMemoryLogs
                /\ flushTask' = [flushTask EXCEPT ![t].pc = "insert",
                                    ![t].inMemoryLogs = <<>>, ![t].attempt = 1]
                /\ UNCHANGED <<memStore, dropLog>>
           ELSE IF RetryGivesUp(db, task.attempt)
           THEN \* catch: put the logs back into the overflow buffer
                /\ memStore' = OverflowAddAll(memStore, task.inMemoryLogs)
                /\ dropLog' = dropLog \cup OverflowEvictedAll(memStore, task.inMemoryLogs)
                /\ flushTask' = [flushTask EXCEPT ![t].pc = "insert",
                                    ![t].inMemoryLogs = <<>>, ![t].attempt = 1]
                /\ UNCHANGED durable
           ELSE /\ flushTask' = [flushTask EXCEPT ![t].attempt = task.attempt + 1]
                /\ UNCHANGED <<memStore, durable, dropLog>>
    /\ UNCHANGED <<batchQueue, db, nextRec>>

\* a pipeline that re-queues whatever the length of the pending batch
RequeueAlways(queue) == TRUE

\* if (this.batchQueue.length < 1000): the failed batch may be re-queued
RequeueAllowed(queue) == Len(queue) < RequeueCap

\* one attempt of the bulk insert of logsToInsert inside flushBatch
flushBatchAttempt(t) ==
    /\ UNCHANGED nonIngestVars
    /\ flushTask[t].pc = "insert"
    /\ LET task == flushTask[t]
       IN  IF db = DbUp
           THEN /\ durable' = durable \o task.logsToInsert
                /\ flushTask' = [flushTask EXCEPT ![t] = IdleTask]
                /\ UNCHANGED <<batchQueue, memStore, dropLog>>
           ELSE IF RetryGivesUp(db, task.attempt)
           THEN /\ flushTask' = [flushTask EXCEPT ![t] = IdleTask]
                /\ UNCHANGED durable
                /\ IF isTransientDatabaseError(db)
                   THEN /\ memStore' = OverflowAddAll(memStore, task.logsToInsert)
                        /\ dropLog' = dropLog
                                \cup OverflowEvictedAll(memStore, task.logsToInsert)
                        /\ UNCHANGED batchQueue
                   ELSE IF RequeueAllowed(batchQueue)
                   THEN /\ batchQueue' = task.logsToInsert \o batchQueue
                        /\ UNCHANGED <<memStore, dropLog>>
                   ELSE /\ dropLog' = dropLog \cup Range(task.logsToInsert)
                        /\ UNCHANGED <<batchQueue, memStore>>
           ELSE /\ flushTask' = [flushTask EXCEPT ![t].attempt = task.attempt + 1]
                /\ UNCHANGED <<batchQueue, memStore, durable, dropLog>>
    /\ UNCHANGED <<db, nextRec>>

\* the durable store fails, changes its failure or recovers
DbChange(e) ==
    /\ UNCHANGED nonIngestVars
    /\ e # db
    /\ db' = e
    /\ UNCHANGED <<batchQueue, flushTask, memStore, durable, dropLog, nextRec>>

\* cleanup(): the timer removes the entries older than max_age; entries stand
\* in admission order, so these are the n oldest
OverflowCleanup(n) ==
    /\ n \in 1..Len(memStore)
    /\ memStore' = SubSeq(memStore, n + 1, Len(memStore))
    /\ UNCHANGED <<batchQueue, flushTask, durable, dropLog, db, nextRec>>
    /\ UNCHANGED nonIngestVars

InitIngest ==
    /\ batchQueue = <<>>
    /\ flushTask = [t \in FlushSlots |-> IdleTask]
    /\ memStore = <<>>
    /\ durable = <<>>
    /\ dropLog = {}
    /\ db = DbUp
    /\ nextRec = 1

NextIngest ==
    \/ SubmitRecord
    \/ BatchTimerTick
    \/ \E t \in FlushSlots : flushInMemoryLogsAttempt(t)
    \/ \E t \in FlushSlots : flushBatchAttempt(t)
    \/ \E e \in DbErrors \cup {DbUp} : DbChange(e)

\* the pipeline fed with enough records to fill the pending batch beyond
\* the re-queue cap
SubmitMany ==
    /\ addToBatchUpTo(ManyRecords)
    /\ UNCHANGED nonIngestVars

NextRequeue ==
    \/ SubmitMany
    \/ BatchTimerTick
    \/ \E t \in FlushSlots : flushInMemoryLogsAttempt(t)
    \/ \E t \in FlushSlots : flushBatchAttempt(t)
    \/ \E e \in DbErrors \cup {DbUp} : DbChange(e)

\* the pipeline together with the overflow buffer's cleanup timer
NextOverflow ==
    \/ NextIngest
    \/ \E n \in 1..OverflowMax : OverflowCleanup(n)


(***************************************************************************)
(* Rate limiter (RateLimiterService)                                       *)
(***************************************************************************)
Clients == {"A", "B"}
Procs == 1..MaxProcs
Times == 1..MaxTime

\* the maxRequests argument of checkRateLimit: the direct callers of the
\* limiter pass client A's own ceiling and none (0, undefined) for client B
CeilingArg(c) == IF c = "A" THEN DefaultLimit + 1 ELSE 0

\* const limit = maxRequests || this.maxRequests
EffectiveLimit(maxRequests) == IF maxRequests # 0 THEN maxRequests ELSE DefaultLimit

\* ZADD key score member: a member already present only has its score updated
ZAdd(set, score, member) ==
    {e \in set : e.member # member} \cup {[score |-> score, member |-> member]}

\* ZRANGE key 0 0 WITHSCORES: the lowest score of a non-empty sorted set
ZOldestScore(set) == CHOOSE x \in {e.score : e \in set} : \A e \in set : x <= e.score

\* a script that admits one request too many
LuaAdmitsAtLimit(current, limit) == current <= limit

\* the script's test `current >= limit` negated: the request is admitted
LuaAdmits(current, limit) == current < limit

\* luaScript, run by the KV store as one step.  rnd is math.random().
\* EXPIRE is left out: it only removes a key whose entries a later check trims.
luaScript(set, now, window, limit, rnd) ==
    LET windowStart == now - window
        \* ZREMRANGEBYSCORE key 0 windowStart
        trimmed == {e \in set : ~(0 <= e.score /\ e.score <= windowStart)}
        current == Cardinality(trimmed)
    IN  IF ~LuaAdmits(current, limit)
        THEN [allowed |-> 0, current |-> current,
              resetTime |-> IF trimmed # {} THEN ZOldestScore(trimmed) + window ELSE now,
              set |-> trimmed]
        ELSE [allowed |-> 1, current |-> current + 1, resetTime |-> now + window,
              set |-> ZAdd(trimmed, now, <<now, rnd>>)]

\* what checkRateLimit returns from the script's reply
scriptResult(reply, limit) ==
    IF reply.allowed = 0
    THEN [allowed |-> FALSE, remaining |-> 0, resetAt |-> reply.resetTime,
          current |-> reply.current, path |-> "script"]
    ELSE [allowed |-> TRUE, remaining |-> limit - reply.current,
          resetAt |-> reply.resetTime, current |-> reply.current, path |-> "script"]

\* timestamps.filter((ts) => ts > windowStart)
RECURSIVE FilterAfter(_, _)
FilterAfter(ts, windowStart) ==
    IF ts = <<>> THEN <<>>
    ELSE IF Head(ts) > windowStart
         THEN <<Head(ts)>> \o FilterAfter(Tail(ts), windowStart)
         ELSE FilterAfter(Tail(ts), windowStart)

\* checkRateLimitInMemory(clientId): it takes no ceiling, it uses this.maxRequests
checkRateLimitInMemory(timestamps, now) ==
    LET kept == FilterAfter(timestamps, now - WindowMs)
        currentCount == Len(kept)
    IN  IF currentCount >= DefaultLimit
        THEN [allowed |-> FALSE, remaining |-> 0,
              resetAt |-> (IF kept # <<>> THEN kept[1] ELSE now) + WindowMs,
              current |-> currentCount, path |-> "memory", timestamps |-> kept]
        ELSE [allowed |-> TRUE, remaining |-> DefaultLimit - currentCount - 1,
              resetAt |-> now + WindowMs, current |-> currentCount + 1,
              path |-> "memory", timestamps |-> Append(kept, now)]

NoPending == [client |-> "none", now |-> 0, limit |-> 0]

\* bookkeeping of a decision of the limiter
RecordDecision(c, now, res) ==
    /\ rlAllowed' = IF res.allowed
                    THEN [rlAllowed EXCEPT ![c][now] = @ + 1]
                    ELSE rlAllowed
    /\ rlFallback' = IF res.path = "memory" THEN rlFallback \cup {c} ELSE rlFallback

\* the in-process fallback of checkRateLimit's catch block, in process p
FallbackDecide(p, c) ==
    LET res == checkRateLimitInMemory(inMemoryStore[p][c], clock)
    IN  /\ inMemoryStore' = [inMemoryStore EXCEPT ![p][c] = res.timestamps]
        /\ RecordDecision(c, clock, res)

\* checkRateLimit up to its await: read the clock and send the eval; when the
\* gateway is not connected getWriteClient throws and the fallback decides
checkRateLimitBegin(p, c) ==
    /\ rlPending[p] = NoPending
    /\ rlChecks < MaxChecks
    /\ rlChecks' = rlChecks + 1
    /\ IF kvUp
       THEN /\ rlPending' = [rlPending EXCEPT ![p] =
                    [client |-> c, now |-> clock, limit |-> EffectiveLimit(CeilingArg(c))]]
            /\ UNCHANGED <<inMemoryStore, rlAllowed, rlFallback>>
       ELSE /\ FallbackDecide(p, c)
            /\ UNCHANGED rlPending
    /\ UNCHANGED <<clock, kvUp, zset>>
    /\ UNCHANGED nonRateVars

\* the KV store runs the script of process p
checkRateLimitEval(p, rnd) ==
    /\ rlPending[p] # NoPending
    /\ kvUp
    /\ LET c == rlPending[p].client
           reply == luaScript(zset[c], rlPending[p].now, WindowMs, rlPending[p].limit, rnd)
       IN  /\ zset' = [zset EXCEPT ![c] = reply.set]
           /\ RecordDecision(c, rlPending[p].now, scriptResult(reply, rlPending[p].limit))
    /\ rlPending' = [rlPending EXCEPT ![p] = NoPending]
    /\ UNCHANGED <<clock, kvUp, inMemoryStore, rlChecks>>
    /\ UNCHANGED nonRateVars

\* the eval of process p is rejected because the KV store is gone
checkRateLimitEvalFails(p) ==
    /\ rlPending[p] # NoPending
    /\ ~kvUp
    /\ FallbackDecide(p, rlPending[p].client)
    /\ rlPending' = [rlPending EXCEPT ![p] = NoPending]
    /\ UNCHANGED <<clock, kvUp, zset, rlChecks>>
    /\ UNCHANGED nonRateVars

\* time passes
ClockTick ==
    /\ clock < MaxTime
    /\ clock' = clock + 1
    /\ UNCHANGED <<kvUp, zset, inMemoryStore, rlPending, rlAllowed, rlFallback, rlChecks>>
    /\ UNCHANGED nonRateVars

\* the KV store goes away or comes back
KvToggle ==
    /\ kvUp' = ~kvUp
    /\ UNCHANGED <<clock, zset, inMemoryStore, rlPending, rlAllowed, rlFallback, rlChecks>>
    /\ UNCHANGED nonRateVars

InitRate ==
    /\ clock = 1
    /\ kvUp = TRUE
    /\ zset = [c \in Clients |-> {}]
    /\ inMemoryStore = [p \in Procs |-> [c \in Clients |-> <<>>]]
    /\ rlPending = [p \in Procs |-> NoPending]
    /\ rlAllowed = [c \in Clients |-> [t \in Times |-> 0]]
    /\ rlFallback = {}
    /\ rlChecks = 0

NextRate ==
    \/ \E p \in Procs, c \in Clients : checkRateLimitBegin(p, c)
    \/ \E p \in Procs, rnd \in 1..RandVals : checkRateLimitEval(p, rnd)
    \/ \E p \in Procs : checkRateLimitEvalFails(p)
    \/ ClockTick
    \/ KvToggle

(***************************************************************************)
(* HTTP middleware chain (clientRouter, auth middleware, rateLimitMiddleware)*)
(***************************************************************************)
\* the rows of the client table: A and B are active, Z is deactivated
Callers == Clients \cup {"Z"}

Registered ==
    [c \in Callers |->
        [isActive |-> c # "Z",
         rateLimit |-> IF c = "A" THEN DefaultLimit + 1
                       ELSE IF c = "B" THEN DefaultLimit - 1 ELSE DefaultLimit]]

Routes == {"POST /logs", "GET /usage/daily", "GET /usage/top"}

\* the handlers each route registers, validateRequest left out (bodies are valid)
RouteChain(route) ==
    IF route = "POST /logs"
    THEN <<"authenticateAPIKey", "rateLimitMiddleware", "logApiHit">>
    ELSE <<"authenticate", "authenticateAPIKey", "rateLimitMiddleware", "getUsage">>

\* what rateLimitMiddleware did with a request: nothing yet
NoCheck == [check |-> "none", next |-> FALSE, remaining |-> 0, retryAfter |-> FALSE,
            code |-> "none", kv |-> FALSE, prior |-> 0]

NoReq == [route |-> "none", jwt |-> "none", key |-> "none", step |-> 0,
          client |-> "none", rateLimit |-> 0, limiter |-> NoCheck,
          awaiting |-> 0, rec |-> 0]

NoResp == [route |-> "none", jwt |-> "none", key |-> "none", client |-> "none",
           status |-> 0, rec |-> 0, limiter |-> NoCheck, publish |-> "none"]

\* the handler the request in progress is about to run
Stage == IF req.step = 0 THEN "none" ELSE RouteChain(req.route)[req.step]

\* res.status(status): the request is answered and leaves the chain
Respond(status) ==
    /\ lastResp' = [route |-> req.route, jwt |-> req.jwt, key |-> req.key,
                    client |-> req.client, status |-> status, rec |-> req.rec,
                    limiter |-> req.limiter, publish |-> "none"]
    /\ req' = NoReq

\* a request arrives; the credentials it carries belong to one caller
HttpRequest(route, jwt, key) ==
    /\ UNCHANGED <<connVars, restVars>>
    /\ req = NoReq
    /\ httpCount < MaxRequests
    /\ httpCount' = httpCount + 1
    /\ req' = [NoReq EXCEPT !.route = route, !.jwt = jwt, !.key = key, !.step = 1]
    /\ lastResp' = NoResp
    /\ UNCHANGED <<ingestVars, rateVars>>

\* authenticateJWT with a well-formed, unexpired token of caller req.jwt;
\* req.client gets clientId, email and name, no rateLimit
authenticateJWT ==
    IF ~Registered[req.jwt].isActive
    THEN Respond(403)
    ELSE /\ req' = [req EXCEPT !.client = req.jwt, !.rateLimit = 0, !.step = @ + 1]
         /\ UNCHANGED lastResp

\* authenticateAPIKey's body: the key is looked up among the active clients;
\* req.client gets clientId, email, name and apiKey, no rateLimit
authenticateAPIKeyBody ==
    IF req.key = "none"
    THEN Respond(401)
    ELSE IF req.key \notin {c \in Callers : Registered[c].isActive}
    THEN Respond(401)
    ELSE /\ req' = [req EXCEPT !.client = req.key, !.rateLimit = 0, !.step = @ + 1]
         /\ UNCHANGED lastResp

\* authenticate: JWT first, then API key, else 401
authenticate ==
    /\ UNCHANGED <<connVars, restVars>>
    /\ Stage = "authenticate"
    /\ IF req.jwt # "none" THEN authenticateJWT
       ELSE IF req.key # "none" THEN authenticateAPIKeyBody
       ELSE Respond(401)
    /\ UNCHANGED httpCount
    /\ UNCHANGED <<ingestVars, rateVars>>

authenticateAPIKey ==
    /\ UNCHANGED <<connVars, restVars>>
    /\ Stage = "authenticateAPIKey"
    /\ authenticateAPIKeyBody
    /\ UNCHANGED httpCount
    /\ UNCHANGED <<ingestVars, rateVars>>

\* a middleware that fails closed: it calls next only on an allowed request
LimiterCallsNextOnlyAllowed(outcome) == outcome = "allowed"

\* rateLimitMiddleware's control flow: next() after `allowed` and in the catch
\* block, the 429 answer after a denial
LimiterCallsNext(outcome) == outcome # "denied"

\* const clientRateLimit = req.client.rateLimit || getConfig().maxRequests
ClientRateLimit(rateLimit) == IF rateLimit # 0 THEN rateLimit ELSE DefaultLimit

\* checkRateLimit as the one server process of this chain runs it: the script
\* when the KV store answers, the in-process fallback otherwise
CheckResult(c, limit, rnd) ==
    IF kvUp
    THEN scriptResult(luaScript(zset[c], clock, WindowMs, limit, rnd), limit)
    ELSE checkRateLimitInMemory(inMemoryStore[1][c], clock)

\* the allowed decisions for c stamped inside the window that ends now
PriorAllowed(c) ==
    LET stamps == {t \in Times : t > clock - WindowMs /\ t <= clock}
        RECURSIVE Sum(_)
        Sum(S) == IF S = {} THEN 0
                  ELSE LET t == CHOOSE x \in S : TRUE
                       IN  rlAllowed[c][t] + Sum(S \ {t})
    IN  Sum(stamps)

\* rateLimitMiddleware; `raised` is an exception escaping its try block
rateLimitMiddleware(raised, rnd) ==
    /\ UNCHANGED <<connVars, restVars>>
    /\ Stage = "rateLimitMiddleware"
    /\ IF req.client = "none"
       THEN /\ req' = [req EXCEPT !.step = @ + 1]
            /\ UNCHANGED <<lastResp, rateVars>>
       ELSE LET c == req.client
                limit == ClientRateLimit(req.rateLimit)
                result == CheckResult(c, limit, rnd)
                outcome == IF raised THEN "error"
                           ELSE IF result.allowed THEN "allowed" ELSE "denied"
                callsNext == LimiterCallsNext(outcome)
                done == [check |-> outcome, next |-> callsNext,
                         remaining |-> IF raised THEN 0 ELSE result.remaining,
                         retryAfter |-> outcome = "denied",
                         code |-> IF callsNext THEN "none" ELSE "RATE_LIMIT_EXCEEDED",
                         kv |-> kvUp, prior |-> PriorAllowed(c)]
            IN  /\ IF raised
                   THEN UNCHANGED <<zset, inMemoryStore, rlAllowed, rlFallback>>
                   ELSE /\ zset' = IF kvUp
                                   THEN [zset EXCEPT ![c] =
                                         luaScript(zset[c], clock, WindowMs, limit, rnd).set]
                                   ELSE zset
                        /\ inMemoryStore' = IF kvUp THEN inMemoryStore
                                            ELSE [inMemoryStore EXCEPT ![1][c] =
                                                  result.timestamps]
                        /\ RecordDecision(c, clock, result)
                /\ IF callsNext
                   THEN /\ req' = [req EXCEPT !.step = @ + 1, !.limiter = done]
                        /\ UNCHANGED lastResp
                   ELSE /\ req' = NoReq
                        /\ lastResp' = [route |-> req.route, jwt |-> req.jwt,
                                        key |-> req.key, client |-> req.client,
                                        status |-> 429, rec |-> 0, limiter |-> done,
                                        publish |-> "none"]
                /\ UNCHANGED <<clock, kvUp, rlPending, rlChecks>>
    /\ UNCHANGED httpCount
    /\ UNCHANGED ingestVars

\* the logApiHit handler up to the end of addToBatch's synchronous part
logApiHitBegin ==
    /\ UNCHANGED <<connVars, restVars>>
    /\ Stage = "logApiHit"
    /\ req.rec = 0
    /\ IF req.client = "none" \/ req.key = "none"
       THEN /\ Respond(401)
            /\ UNCHANGED ingestVars
       ELSE /\ addToBatch
            /\ req' = [req EXCEPT !.rec = nextRec,
                          !.awaiting = IF Len(batchQueue) + 1 >= BatchSize
                                       THEN CHOOSE x \in FreeSlots :
                                                \A y \in FreeSlots : x <= y
                                       ELSE 0]
            /\ UNCHANGED lastResp
    /\ UNCHANGED httpCount
    /\ UNCHANGED rateVars

\* addToBatch has returned: publish without waiting for it, answer 201
logApiHitReturn ==
    /\ UNCHANGED <<connVars, restVars>>
    /\ Stage = "logApiHit"
    /\ req.rec # 0
    /\ req.awaiting # 0 => flushTask[req.awaiting].trigger # "submit"
    /\ lastResp' = [route |-> req.route, jwt |-> req.jwt, key |-> req.key,
                    client |-> req.client, status |-> 201, rec |-> req.rec,
                    limiter |-> req.limiter,
                    publish |-> IF kvUp THEN "sent" ELSE "failure logged"]
    /\ req' = NoReq
    /\ UNCHANGED httpCount
    /\ UNCHANGED <<ingestVars, rateVars>>

\* the getDailyUsage and getTopClients handlers answer 200
getUsage ==
    /\ UNCHANGED <<connVars, restVars>>
    /\ Stage = "getUsage"
    /\ Respond(200)
    /\ UNCHANGED httpCount
    /\ UNCHANGED <<ingestVars, rateVars>>

InitHttp ==
    /\ req = NoReq
    /\ lastResp = NoResp
    /\ httpCount = 0

NextHttp ==
    \/ \E route \in Routes, c \in Callers, jwt, key \in BOOLEAN :
            HttpRequest(route, IF jwt THEN c ELSE "none", IF key THEN c ELSE "none")
    \/ authenticate
    \/ authenticateAPIKey
    \/ \E raised \in BOOLEAN, rnd \in 1..RandVals : rateLimitMiddleware(raised, rnd)
    \/ logApiHitBegin
    \/ logApiHitReturn
    \/ getUsage
    \/ \E t \in FlushSlots : flushBatchAttempt(t)
    \/ ClockTick
    \/ KvToggle

(***************************************************************************)
(* KV gateway connection (RedisService and its two ioredis clients)        *)
(***************************************************************************)
KvClients == {"write", "read"}

\* writeClient / readClient are null
NoClient == [status |-> "none", retryAttempts |-> 0]

ReadyClient == [status |-> "ready", retryAttempts |-> 0]

AllReady == \A k \in KvClients : kvClient[k].status = "ready"

\* retryStrategy(times): TRUE when it returns a delay, FALSE when it returns
\* null and the client stops reconnecting
retryStrategy(times) == ~(times > maxReconnectAttempts)

\* the delay retryStrategy returns, in ms
retryDelay(times) ==
    LET RECURSIVE Pow2(_)
        Pow2(n) == IF n = 0 THEN 1 ELSE 2 * Pow2(n - 1)
        d == 100 * Pow2(times - 1)
    IN  IF d < 3000 THEN d ELSE 3000

\* the client's connection is gone: it emits 'close', whose handler clears
\* isConnected, and asks retryStrategy whether to reconnect
OnClose(k) ==
    LET times == kvClient[k].retryAttempts + 1
    IN  /\ isConnected' = FALSE
        /\ reconnectAttempts' = times
        /\ kvClient' = [kvClient EXCEPT ![k] =
                [status |-> IF retryStrategy(times) THEN "reconnecting" ELSE "end",
                 retryAttempts |-> times]]

\* connect(): new clients; it resolves when both are ready
connect ==
    /\ IF serverUp
       THEN /\ kvClient' = [k \in KvClients |-> ReadyClient]
            /\ isConnected' = TRUE
            /\ reconnectAttempts' = 0
       ELSE \* the first connection attempt of the new clients fails
            /\ kvClient' = [k \in KvClients |->
                                [status |-> "reconnecting", retryAttempts |-> 1]]
            /\ isConnected' = FALSE
            /\ reconnectAttempts' = 1
    /\ UNCHANGED <<serverUp, lastOp>>
    /\ UNCHANGED <<ingestVars, rateVars, httpVars, restVars>>

\* disconnect(): quit both clients
disconnect ==
    /\ \E k \in KvClients : kvClient[k] # NoClient
    /\ kvClient' = [k \in KvClients |-> NoClient]
    /\ isConnected' = FALSE
    /\ UNCHANGED <<reconnectAttempts, serverUp, lastOp>>
    /\ UNCHANGED <<ingestVars, rateVars, httpVars, restVars>>

\* the connection of a ready client is lost
ConnectionLost(k) ==
    /\ kvClient[k].status = "ready"
    /\ OnClose(k)
    /\ UNCHANGED <<serverUp, lastOp>>
    /\ UNCHANGED <<ingestVars, rateVars, httpVars, restVars>>

\* the reconnect timer of client k fires: 'connect' and 'ready' (their
\* handlers only log) when the server answers, 'error' and 'close' otherwise
ReconnectAttempt(k) ==
    /\ kvClient[k].status = "reconnecting"
    /\ IF serverUp
       THEN /\ kvClient' = [kvClient EXCEPT ![k] = ReadyClient]
            /\ UNCHANGED <<isConnected, reconnectAttempts>>
       ELSE OnClose(k)
    /\ UNCHANGED <<serverUp, lastOp>>
    /\ UNCHANGED <<ingestVars, rateVars, httpVars, restVars>>

\* a gateway operation (get, set, incrBy, expire, keys, getWriteClient, ...):
\* ensureConnected first, then the command
GatewayOp ==
    /\ lastOp' = [result |-> IF ~isConnected \/ \E k \in KvClients : kvClient[k] = NoClient
                             THEN "not connected"
                             ELSE IF AllReady /\ serverUp THEN "ok" ELSE "command failed",
                  allReady |-> AllReady /\ serverUp,
                  exhausted |-> \E k \in KvClients : kvClient[k].status = "end"]
    /\ UNCHANGED <<isConnected, reconnectAttempts, kvClient, serverUp>>
    /\ UNCHANGED <<ingestVars, rateVars, httpVars, restVars>>

\* the KV server goes away or comes back
ServerToggle ==
    /\ serverUp' = ~serverUp
    /\ UNCHANGED <<isConnected, reconnectAttempts, kvClient, lastOp>>
    /\ UNCHANGED <<ingestVars, rateVars, httpVars, restVars>>

InitKv ==
    /\ isConnected = FALSE
    /\ reconnectAttempts = 0
    /\ kvClient = [k \in KvClients |-> NoClient]
    /\ serverUp = TRUE
    /\ lastOp = [result |-> "none", allReady |-> FALSE, exhausted |-> FALSE]

NextKv ==
    \/ connect
    \/ disconnect
    \/ \E k \in KvClients : ConnectionLost(k)
    \/ \E k \in KvClients : ReconnectAttempt(k)
    \/ GatewayOp
    \/ ServerToggle

(***************************************************************************)
(* Usage analytics and their cache (ClientService)                         *)
(*                                                                         *)
(* clientService.ts holds two revisions of the class: the one of lines     *)
(* 12-378 wraps every cache access in its own try/catch (guarded), the one *)
(* of lines 392-626 does not.                                              *)
(***************************************************************************)
GetOps == {"getDailyUsage", "getTopClients"}
PrewarmOps == {"prewarmDailyUsage", "prewarmTopClients"}

\* const cacheKey = `usage:daily:${days}` or `usage:top:${hours}:${limit}`
CacheKeys == {"usage:daily", "usage:top"}
KeyOf(op) == IF op \in {"getDailyUsage", "prewarmDailyUsage"} THEN "usage:daily"
             ELSE "usage:top"

\* what the durable-store query of an operation returns: no row when the
\* window holds no log, else one row carrying the request count
QueryResult(key, rows) ==
    IF rows = 0 THEN <<>> ELSE <<[key |-> key, requestCount |-> rows]>>

\* redisService.getJSON: null (here the empty result) for a missing key
getJSON(entry) == IF entry = <<>> THEN <<>> ELSE entry[1]

\* a cache that is written whatever the result is
WritesToCacheAlways(result) == TRUE

\* if (result.length > 0) { await redisService.setJSON(...) }
WritesToCache(result) == Len(result) > 0

\* a read that takes whatever the cache returns for a hit
IsCacheHitAlways(cached) == TRUE

\* if (cached && cached.length > 0)
IsCacheHit(cached) == Len(cached) > 0

NoCall == [op |-> "none", guarded |-> TRUE, pc |-> "idle", result |-> <<>>,
           tracked |-> <<>>]

NoOutcome == [op |-> "none", guarded |-> TRUE, status |-> "none", cause |-> "none",
              data |-> <<>>, result |-> <<>>, entry |-> <<>>, tracked |-> <<>>]

\* the call returns or throws; entry is the cache entry at that moment and
\* tracked the trackAccess calls it has made
Finish(status, cause, data, result, entry, tracked) ==
    /\ lastCall' = [op |-> call.op, guarded |-> call.guarded, status |-> status,
                    cause |-> cause, data |-> data, result |-> result, entry |-> entry,
                    tracked |-> tracked]
    /\ call' = NoCall

\* an analytics operation is called: the prewarm operations skip the cache read
AnalyticsCall(op, guarded) ==
    /\ call = NoCall
    /\ call' = [op |-> op, guarded |-> guarded,
                pc |-> IF op \in PrewarmOps THEN "query" ELSE "read", result |-> <<>>,
                tracked |-> <<>>]
    /\ lastCall' = NoOutcome
    /\ UNCHANGED <<usageRows, cache>>
    /\ UNCHANGED nonAnalyticsVars

\* cacheHitTracker.trackAccess(cacheKey, isHit).catch(() => {}): the call is
\* not awaited; recorded tells whether its INCRBY reached the KV store.  Only
\* the revision of lines 12-378 calls the tracker.
TrackAccess(isHit, recorded) ==
    IF call.guarded
    THEN <<[access |-> IF isHit THEN "hit" ELSE "miss", recorded |-> recorded]>>
    ELSE <<>>

\* const cached = await redisService.getJSON(cacheKey), the tracker call of
\* the branch taken, and the return of the cached payload
cacheRead(recorded) ==
    /\ call.pc = "read"
    /\ LET key == KeyOf(call.op)
           cached == getJSON(cache[key])
       IN  IF kvUp
           THEN IF IsCacheHit(cached)
                THEN Finish("success", "none", cached, <<>>, cache[key],
                            TrackAccess(TRUE, recorded))
                ELSE /\ call' = [call EXCEPT !.pc = "query",
                                             !.tracked = TrackAccess(FALSE, recorded)]
                     /\ UNCHANGED lastCall
           ELSE IF call.guarded
                THEN /\ call' = [call EXCEPT !.pc = "query",
                                             !.tracked = TrackAccess(FALSE, recorded)]
                     /\ UNCHANGED lastCall
                ELSE Finish("failure", "cache read", <<>>, <<>>, cache[key], <<>>)
    /\ UNCHANGED <<usageRows, cache>>
    /\ UNCHANGED nonAnalyticsVars

\* the queries of the durable store, and the test that guards the cache write
durableQuery ==
    /\ call.pc = "query"
    /\ LET key == KeyOf(call.op)
           result == QueryResult(key, usageRows)
       IN  IF db # DbUp
           THEN Finish(IF call.op \in PrewarmOps THEN "thrown" ELSE "failure",
                       "query", <<>>, <<>>, cache[key], call.tracked)
           ELSE IF WritesToCache(result)
           THEN /\ call' = [call EXCEPT !.pc = "write", !.result = result]
                /\ UNCHANGED lastCall
           ELSE Finish(IF call.op \in PrewarmOps THEN "returned" ELSE "success",
                       "none", result, result, cache[key], call.tracked)
    /\ UNCHANGED <<usageRows, cache>>
    /\ UNCHANGED nonAnalyticsVars

\* await redisService.setJSON(cacheKey, result, ttl), and the return
cacheWrite ==
    /\ call.pc = "write"
    /\ LET key == KeyOf(call.op)
       IN  IF kvUp
           THEN /\ cache' = [cache EXCEPT ![key] = <<call.result>>]
                /\ Finish(IF call.op \in PrewarmOps THEN "returned" ELSE "success",
                          "none", call.result, call.result, <<call.result>>, call.tracked)
           ELSE /\ UNCHANGED cache
                /\ IF call.op \in PrewarmOps
                   THEN Finish("thrown", "cache write", <<>>, call.result, cache[key], call.tracked)
                   ELSE IF call.guarded
                   THEN Finish("success", "none", call.result, call.result, cache[key], call.tracked)
                   ELSE Finish("failure", "cache write", <<>>, call.result, cache[key], call.tracked)
    /\ UNCHANGED usageRows
    /\ UNCHANGED nonAnalyticsVars

\* logs are written or leave the analytics window
UsageChange(n) ==
    /\ n # usageRows
    /\ usageRows' = n
    /\ UNCHANGED <<cache, call, lastCall>>
    /\ UNCHANGED nonAnalyticsVars

\* the TTL of a cache entry runs out
CacheExpire(key) ==
    /\ cache[key] # <<>>
    /\ cache' = [cache EXCEPT ![key] = <<>>]
    /\ UNCHANGED <<usageRows, call, lastCall>>
    /\ UNCHANGED nonAnalyticsVars

InitAnalytics ==
    /\ usageRows = 0
    /\ cache = [k \in CacheKeys |-> <<>>]
    /\ call = NoCall
    /\ lastCall = NoOutcome

NextAnalytics ==
    \/ \E op \in GetOps, guarded \in BOOLEAN : AnalyticsCall(op, guarded)
    \/ \E op \in PrewarmOps : AnalyticsCall(op, TRUE)
    \/ \E recorded \in BOOLEAN : cacheRead(recorded)
    \/ durableQuery
    \/ cacheWrite
    \/ \E n \in 0..MaxRows : UsageChange(n)
    \/ \E key \in CacheKeys : CacheExpire(key)
    \/ KvToggle
    \/ \E e \in DbErrors \cup {DbUp} : DbChange(e)

(***************************************************************************)
(* Graceful shutdown (startServer.onCloseSignal)                           *)
(***************************************************************************)
\* the process has not called process.exit
Alive == proc.exit = "none"

\* requests are still served: the listener is open, or connections accepted
\* before server.close() are being answered
Serving == proc.pc \in {"running", "import", "closing"}

\* the handler from the cron job's stop to its end: close the live-subscriber
\* server, call server.close and arm the 10 s timer
CloseAndArm(cronSteps) ==
    [proc EXCEPT !.pc = "closing",
                 !.steps = cronSteps \o <<"websocketService.close", "server.close">>,
                 !.armed = TRUE]

\* SIGINT / SIGTERM: with the cron job enabled the handler first awaits the
\* import of the pre-warmer's module; otherwise it runs to its end at once
onCloseSignal(cronEnabled) ==
    /\ proc.pc = "running"
    /\ proc' = IF cronEnabled THEN [proc EXCEPT !.pc = "import"]
               ELSE CloseAndArm(<<>>)
    /\ UNCHANGED nonShutdownVars

\* the import resolves: stopCronJob, then the rest of the handler
stopCronJob ==
    /\ proc.pc = "import"
    /\ proc' = CloseAndArm(<<"stopCronJob">>)
    /\ UNCHANGED nonShutdownVars

\* the callback of server.close, up to its first await: closeDatabase
serverCloseCallback ==
    /\ Alive
    /\ proc.pc = "closing"
    /\ proc' = [proc EXCEPT !.pc = "closed", !.steps = Append(@, "closeDatabase")]
    /\ UNCHANGED nonShutdownVars

\* the rest of the callback: redisService.disconnect and process.exit(0)
shutdownComplete ==
    /\ Alive
    /\ proc.pc = "closed"
    /\ proc' = [proc EXCEPT !.pc = "exited",
                            !.steps = Append(@, "redisService.disconnect"),
                            !.exit = "0"]
    /\ UNCHANGED nonShutdownVars

\* the 10 s timer fires before the callback has finished
forcedShutdown ==
    /\ Alive
    /\ proc.armed
    /\ proc' = [proc EXCEPT !.pc = "exited", !.exit = "1"]
    /\ UNCHANGED nonShutdownVars

InitShutdown ==
    proc = [pc |-> "running", steps |-> <<>>, armed |-> FALSE, exit |-> "none"]

\* the ingestion pipeline runs until the process exits; the shutdown handler
\* never touches its timer
NextShutdown ==
    \/ Serving /\ SubmitRecord
    \/ Alive /\ BatchTimerTick
    \/ Alive /\ \E t \in FlushSlots : flushInMemoryLogsAttempt(t)
    \/ Alive /\ \E t \in FlushSlots : flushBatchAttempt(t)
    \/ \E e \in DbErrors \cup {DbUp} : DbChange(e)
    \/ \E cronEnabled \in BOOLEAN : onCloseSignal(cronEnabled)
    \/ stopCronJob
    \/ serverCloseCallback
    \/ shutdownComplete
    \/ forcedShutdown

(***************************************************************************)
(* Live updates: api:log:new fan-out and the SSE stream                    *)
(***************************************************************************)
\* channel: z.enum(["all", "logs", "daily", "top"])
Channels == {"all", "logs", "daily", "top"}

NoStream == [open |-> FALSE, channel |-> "none", events |-> {}, since |-> 0]

Event(name, rec) == [event |-> name, rec |-> rec]

\* streamUsageUpdates: the connected event is written at once
streamUsageUpdates(channel) ==
    /\ ~sse.open
    /\ sse' = [open |-> TRUE, channel |-> channel,
               events |-> {Event("connected", 0)}, since |-> logId]
    /\ UNCHANGED <<chan, wsLogs, logId, tick, lateWrites>>
    /\ UNCHANGED nonStreamVars

\* the 30 s interval
heartbeatInterval ==
    /\ sse.open
    /\ sse' = [sse EXCEPT !.events = @ \cup {Event("heartbeat", 0)}]
    /\ UNCHANGED <<chan, wsLogs, logId, tick, lateWrites>>
    /\ UNCHANGED nonStreamVars

\* no callback of the update interval is awaiting a query
NoTick == [pc |-> "idle", channel |-> "none", ended |-> FALSE]

\* the 10 s interval fires: the async callback runs to its first await, the
\* analytics query of the first usage update the channel subscribes to (one
\* callback is followed at a time)
updateInterval ==
    /\ sse.open
    /\ tick.pc = "idle"
    /\ tick' = IF sse.channel \in {"all", "daily"}
                THEN [pc |-> "daily", channel |-> sse.channel, ended |-> FALSE]
                ELSE IF sse.channel = "top"
                THEN [pc |-> "top", channel |-> sse.channel, ended |-> FALSE]
                ELSE tick
    /\ UNCHANGED <<sse, chan, wsLogs, logId, lateWrites>>
    /\ UNCHANGED nonStreamVars

\* writeFn(data) called by the callback: res.write, whether or not the
\* response of the callback's stream has been ended
writeFn(event) ==
    IF tick.ended
    THEN /\ lateWrites' = lateWrites \cup {event}
         /\ UNCHANGED sse
    ELSE /\ sse' = [sse EXCEPT !.events = @ \cup {event}]
         /\ UNCHANGED lateWrites

\* the callback resumes after `await this.getDailyUsage(7)`
dailyUsageAwaited(success) ==
    /\ tick.pc = "daily"
    /\ IF success
       THEN writeFn(Event("usage:daily:update", 0))
       ELSE UNCHANGED <<sse, lateWrites>>
    /\ tick' = IF tick.channel = "all" THEN [tick EXCEPT !.pc = "top"]
                ELSE NoTick
    /\ UNCHANGED <<chan, wsLogs, logId>>
    /\ UNCHANGED nonStreamVars

\* the callback resumes after `await this.getTopClients(24, 3)`
topClientsAwaited(success) ==
    /\ tick.pc = "top"
    /\ IF success
       THEN writeFn(Event("usage:top:update", 0))
       ELSE UNCHANGED <<sse, lateWrites>>
    /\ tick' = NoTick
    /\ UNCHANGED <<chan, wsLogs, logId>>
    /\ UNCHANGED nonStreamVars

\* req.on("close"): the intervals are cleared and the response ends; a
\* callback that already runs is not affected by clearInterval
streamClose ==
    /\ sse.open
    /\ sse' = NoStream
    /\ tick' = IF tick.pc = "idle" THEN tick ELSE [tick EXCEPT !.ended = TRUE]
    /\ UNCHANGED <<chan, wsLogs, logId, lateWrites>>
    /\ UNCHANGED nonStreamVars

\* logApiHit's fire-and-forget publish of a posted log: lost when the KV
\* store is unreachable
publishLogEvent ==
    /\ logId <= MaxLogs
    /\ logId' = logId + 1
    /\ chan' = IF kvUp THEN Append(chan, logId) ELSE chan
    /\ UNCHANGED <<sse, wsLogs, tick, lateWrites>>
    /\ UNCHANGED nonStreamVars

\* the api:log:new subscriber of startServer: websocketService.broadcastNewLog
onLogMessage ==
    /\ chan # <<>>
    /\ wsLogs' = wsLogs \cup {Head(chan)}
    /\ chan' = Tail(chan)
    /\ UNCHANGED <<sse, logId, tick, lateWrites>>
    /\ UNCHANGED nonStreamVars

InitStream ==
    /\ sse = NoStream
    /\ chan = <<>>
    /\ wsLogs = {}
    /\ logId = 1
    /\ tick = NoTick
    /\ lateWrites = {}

NextStream ==
    \/ \E channel \in Channels : streamUsageUpdates(channel)
    \/ heartbeatInterval
    \/ updateInterval
    \/ \E success \in BOOLEAN : dailyUsageAwaited(success)
    \/ \E success \in BOOLEAN : topClientsAwaited(success)
    \/ streamClose
    \/ publishLogEvent
    \/ onLogMessage
    \/ KvToggle

(***************************************************************************)
(* Registration (ClientService.register, ClientRepository.create)          *)
(*                                                                         *)
(* The client entity is not part of the sources at hand: whether its table *)
(* carries a unique index on email is fixed with the first call, either way. *)
(***************************************************************************)
Emails == {"a@acme.com", "b@acme.com"}
RegCalls == 1..MaxRegs

NoReg == [pc |-> "idle", email |-> "none", status |-> 0]

\* POST /register arrives: register runs up to `await findByEmail`.  The
\* first call meets the table as it was created, with the index or without.
registerBegin(p, email, unique) ==
    /\ reg[p].pc = "idle"
    /\ reg' = [reg EXCEPT ![p] = [pc |-> "find", email |-> email, status |-> 0]]
    /\ emailUnique' = IF \A q \in RegCalls : reg[q] = NoReg THEN unique ELSE emailUnique
    /\ UNCHANGED clientRows
    /\ UNCHANGED nonRegisterVars

\* findByEmail answers: 409 when a row exists, else on to create
registerFind(p) ==
    /\ reg[p].pc = "find"
    /\ reg' = IF clientRows[reg[p].email] > 0
              THEN [reg EXCEPT ![p].pc = "done", ![p].status = 409]
              ELSE [reg EXCEPT ![p].pc = "create"]
    /\ UNCHANGED <<emailUnique, clientRows>>
    /\ UNCHANGED nonRegisterVars

\* clientRepository.create: repository.save inserts the row and register
\* answers 201; a save the table rejects is caught and answered with 500
registerCreate(p) ==
    /\ reg[p].pc = "create"
    /\ IF emailUnique /\ clientRows[reg[p].email] > 0
       THEN /\ reg' = [reg EXCEPT ![p].pc = "done", ![p].status = 500]
            /\ UNCHANGED clientRows
       ELSE /\ reg' = [reg EXCEPT ![p].pc = "done", ![p].status = 201]
            /\ clientRows' = [clientRows EXCEPT ![reg[p].email] = @ + 1]
    /\ UNCHANGED emailUnique
    /\ UNCHANGED nonRegisterVars

InitRegister ==
    /\ emailUnique = FALSE
    /\ clientRows = [e \in Emails |-> 0]
    /\ reg = [p \in RegCalls |-> NoReg]

NextRegister ==
    \/ \E p \in RegCalls, email \in Emails, unique \in BOOLEAN :
            registerBegin(p, email, unique)
    \/ \E p \in RegCalls : registerFind(p)
    \/ \E p \in RegCalls : registerCreate(p)

(***************************************************************************)
(* One call of withRetry (retry.utils.ts)                                  *)
(***************************************************************************)
\* the options of the calls, each with a retryableErrors list as every caller
\* passes one: withDatabaseRetry's, and calls with another base, without
\* retries, and with delays that reach maxDelayMs
RetryOptions ==
    { [maxRetries |-> 3, baseDelayMs |-> 200, maxDelayMs |-> 5000, listed |-> TRUE],
      [maxRetries |-> 3, baseDelayMs |-> 100, maxDelayMs |-> 5000, listed |-> TRUE],
      [maxRetries |-> 0, baseDelayMs |-> 100, maxDelayMs |-> 5000, listed |-> TRUE],
      [maxRetries |-> 3, baseDelayMs |-> 200, maxDelayMs |-> 500, listed |-> TRUE] }

\* the errors fn raises: the store's, one whose marker is in another letter
\* case than the lists spell it, and a second retryable one
HarnessErrors ==
    DbErrors \cup { [marker |-> "ECONNREFUSED", exactCase |-> FALSE],
                    [marker |-> "deadlock", exactCase |-> TRUE] }

RECURSIVE pow2(_)
\* Math.pow(2, n)
pow2(n) == IF n = 0 THEN 1 ELSE 2 * pow2(n - 1)

\* a backoff that is never capped
backoffDelayUncapped(opts, attempt) == opts.baseDelayMs * pow2(attempt - 1)

\* Math.min(baseDelayMs * Math.pow(2, attempt - 1), maxDelayMs)
backoffDelay(opts, attempt) ==
    IF opts.baseDelayMs * pow2(attempt - 1) < opts.maxDelayMs
    THEN opts.baseDelayMs * pow2(attempt - 1)
    ELSE opts.maxDelayMs

NoRetry == [opts |-> [maxRetries |-> 0, baseDelayMs |-> 0, maxDelayMs |-> 0,
                      listed |-> FALSE],
            pc |-> "idle", attempt |-> 0, calls |-> 0, delays |-> <<>>,
            errors |-> <<>>, thrown |-> DbUp]

\* withRetry(fn, options) is called: the loop starts with attempt 1
withRetry(opts) ==
    /\ rt.pc = "idle"
    /\ rt' = [NoRetry EXCEPT !.opts = opts, !.pc = "calling", !.attempt = 1]
    /\ UNCHANGED nonRetryVars

\* return await fn(): fn resolves
fnResolves ==
    /\ rt.pc = "calling"
    /\ rt' = [rt EXCEPT !.pc = "resolved", !.calls = @ + 1]
    /\ UNCHANGED nonRetryVars

\* fn rejects with e: the catch block rethrows or goes to sleep
fnRejects(e) ==
    /\ rt.pc = "calling"
    /\ LET seen == [rt EXCEPT !.calls = @ + 1, !.errors = Append(@, e)]
       IN  rt' = IF rt.attempt > rt.opts.maxRetries
                 THEN [seen EXCEPT !.pc = "rejected", !.thrown = e]
                 ELSE IF rt.opts.listed /\ ~IsRetryable(e)
                 THEN [seen EXCEPT !.pc = "rejected", !.thrown = e]
                 ELSE [seen EXCEPT !.pc = "sleeping",
                                   !.delays = Append(@, backoffDelay(rt.opts, rt.attempt))]
    /\ UNCHANGED nonRetryVars

\* await sleep(delay) ends: the next turn of the loop
sleepEnds ==
    /\ rt.pc = "sleeping"
    /\ rt' = [rt EXCEPT !.pc = "calling", !.attempt = @ + 1]
    /\ UNCHANGED nonRetryVars

InitRetry == rt = NoRetry

NextRetry ==
    \/ \E opts \in RetryOptions : withRetry(opts)
    \/ fnResolves
    \/ \E e \in HarnessErrors : fnRejects(e)
    \/ sleepEnds

(***************************************************************************)
(* Cache hit tracker (cache-hit-tracker.service.ts)                        *)
(***************************************************************************)
\* the expiry of a counter, in ticks of the model's clock
windowSeconds == 3

\* hitKey and missKey of one cache key
CounterKeys == {"cache:hits:k", "cache:hits:k:miss"}

NoCounter == [value |-> 0, ttl |-> -1]
NoTrack == [pc |-> "idle", key |-> "none"]

\* isHit ? hitKey : missKey
KeyFor(isHit) == IF isHit THEN "cache:hits:k" ELSE "cache:hits:k:miss"

\* trackAccess up to its first await: redisService.incrBy(key, 1) runs in the
\* KV store; INCRBY creates a missing key, without an expiry
trackAccessIncr(t, isHit) ==
    /\ track[t] = NoTrack
    /\ accesses < MaxAccesses
    /\ accesses' = accesses + 1
    /\ counters' = [counters EXCEPT ![KeyFor(isHit)].value = @ + 1]
    /\ track' = [track EXCEPT ![t] = [pc |-> "expire", key |-> KeyFor(isHit)]]
    /\ UNCHANGED nonTrackerVars

\* incrBy throws (the gateway is not connected): the catch block logs
trackAccessIncrFails(t) ==
    /\ track[t] = NoTrack
    /\ accesses < MaxAccesses
    /\ accesses' = accesses + 1
    /\ UNCHANGED <<counters, track>>
    /\ UNCHANGED nonTrackerVars

\* redisService.expire(key, windowSeconds), after every increment; EXPIRE on
\* a key that is gone does nothing
trackAccessExpire(t) ==
    /\ track[t].pc = "expire"
    /\ counters' = IF counters[track[t].key].value > 0
                   THEN [counters EXCEPT ![track[t].key].ttl = windowSeconds]
                   ELSE counters
    /\ track' = [track EXCEPT ![t] = NoTrack]
    /\ UNCHANGED accesses
    /\ UNCHANGED nonTrackerVars

\* expire throws: the catch block logs, the key keeps the TTL it had
trackAccessExpireFails(t) ==
    /\ track[t].pc = "expire"
    /\ track' = [track EXCEPT ![t] = NoTrack]
    /\ UNCHANGED <<counters, accesses>>
    /\ UNCHANGED nonTrackerVars

\* a second passes in the KV store: a key whose TTL runs out is deleted
TrackerTick ==
    /\ \E k \in CounterKeys : counters[k].ttl > 0
    /\ counters' = [k \in CounterKeys |->
                       IF counters[k].ttl > 1 THEN [counters[k] EXCEPT !.ttl = @ - 1]
                       ELSE IF counters[k].ttl = 1 THEN NoCounter
                       ELSE counters[k]]
    /\ UNCHANGED <<track, accesses>>
    /\ UNCHANGED nonTrackerVars

InitTracker ==
    /\ counters = [k \in CounterKeys |-> NoCounter]
    /\ track = [t \in Procs |-> NoTrack]
    /\ accesses = 0

NextTracker ==
    \/ \E t \in Procs, isHit \in BOOLEAN : trackAccessIncr(t, isHit)
    \/ \E t \in Procs : trackAccessIncrFails(t)
    \/ \E t \in Procs : trackAccessExpire(t)
    \/ \E t \in Procs : trackAccessExpireFails(t)
    \/ TrackerTick

(***************************************************************************)
(* Live subscribers (websocket.service.ts) and the api:log:new callback    *)
(***************************************************************************)
Sockets == 1..MaxSockets

\* `client:${clientId}`
ClientRoom(c) == IF c = "A" THEN "client:A" ELSE "client:B"

\* the channel names a subscribe or unsubscribe message carries in the model
ChannelArgs == {"logs", "all-clients", "other"}

NoSocket == [clientId |-> "none", rooms |-> {}, inbox |-> <<>>]

\* what api:log:new carries: the log of a caller, or text that is not JSON
Messages(id) ==
    {[id |-> id, clientId |-> c, valid |-> TRUE] : c \in Clients}
        \cup {[id |-> id, clientId |-> "none", valid |-> FALSE]}

\* an emit that puts the event ahead of those the socket already has
EmitFirst(inbox, id) == <<id>> \o inbox

\* socket.io writes the events of one socket in the order of the emits
Emit(inbox, id) == Append(inbox, id)

\* this.io.to(room).emit("log:new", data): one event to each socket in room
EmitTo(socks, room, id) ==
    [s \in Sockets |-> IF room \in socks[s].rooms
                       THEN [socks[s] EXCEPT !.inbox = Emit(@, id)]
                       ELSE socks[s]]

\* broadcastNewLog(data): the room logs, then the room of the log's caller
broadcastNewLog(socks, m) ==
    EmitTo(EmitTo(socks, "logs", m.id), ClientRoom(m.clientId), m.id)

\* the authentication middleware passed: the connection handler joins the
\* socket to its caller's room and to all-clients
connection(s, c) ==
    /\ sockets[s] = NoSocket
    /\ sockets' = [sockets EXCEPT ![s] =
           [clientId |-> c, rooms |-> {ClientRoom(c), "all-clients"}, inbox |-> <<>>]]
    /\ UNCHANGED <<wsChan, wsCount>>
    /\ UNCHANGED nonWsVars

\* socket.on("subscribe"): one of three channels is joined, others are ignored
wsSubscribe(s, channel) ==
    /\ sockets[s] # NoSocket
    /\ sockets' = IF channel \in {"usage:daily", "usage:top", "logs"}
                  THEN [sockets EXCEPT ![s].rooms = @ \cup {channel}]
                  ELSE sockets
    /\ UNCHANGED <<wsChan, wsCount>>
    /\ UNCHANGED nonWsVars

\* socket.on("unsubscribe"): socket.leave(channel), whatever the channel is
wsUnsubscribe(s, channel) ==
    /\ sockets[s] # NoSocket
    /\ sockets' = [sockets EXCEPT ![s].rooms = @ \ {channel}]
    /\ UNCHANGED <<wsChan, wsCount>>
    /\ UNCHANGED nonWsVars

\* the socket disconnects: socket.io takes it out of every room
wsDisconnect(s) ==
    /\ sockets[s] # NoSocket
    /\ sockets' = [sockets EXCEPT ![s] = NoSocket]
    /\ UNCHANGED <<wsChan, wsCount>>
    /\ UNCHANGED nonWsVars

\* the subscriber connection receives a message on api:log:new
messageReceived(m) ==
    /\ wsCount < MaxMsgs
    /\ m.id = wsCount + 1
    /\ wsCount' = wsCount + 1
    /\ wsChan' = Append(wsChan, m)
    /\ UNCHANGED sockets
    /\ UNCHANGED nonWsVars

\* subscriber.on("message") runs the callback of startServer: JSON.parse,
\* then broadcastNewLog; a message that does not parse is logged
subscribeCallback ==
    /\ wsChan # <<>>
    /\ wsChan' = Tail(wsChan)
    /\ sockets' = IF Head(wsChan).valid THEN broadcastNewLog(sockets, Head(wsChan))
                  ELSE sockets
    /\ UNCHANGED wsCount
    /\ UNCHANGED nonWsVars

InitWs ==
    /\ sockets = [s \in Sockets |-> NoSocket]
    /\ wsChan = <<>>
    /\ wsCount = 0

NextWs ==
    \/ \E s \in Sockets, c \in Clients : connection(s, c)
    \/ \E s \in Sockets, channel \in ChannelArgs : wsSubscribe(s, channel)
    \/ \E s \in Sockets, channel \in ChannelArgs : wsUnsubscribe(s, channel)
    \/ \E s \in Sockets : wsDisconnect(s)
    \/ \E m \in Messages(wsCount + 1) : messageReceived(m)
    \/ subscribeCallback

(***************************************************************************)
(* Hot keys: the cache key of an analytics call and its parsing            *)
(* A string is a sequence of characters; the words usage, daily and top    *)
(* are one character each.                                                 *)
(***************************************************************************)
DigitChars == <<"0", "1", "2", "3", "4", "5", "6", "7", "8", "9">>

IsDigit(ch) == \E i \in 1..10 : DigitChars[i] = ch
DigitValue(ch) == (CHOOSE i \in 1..10 : DigitChars[i] = ch) - 1

RECURSIVE numberToString(_)
\* `${n}` of a non-negative integer
numberToString(n) ==
    IF n < 10 THEN <<DigitChars[n + 1]>>
    ELSE numberToString(n \div 10) \o <<DigitChars[(n % 10) + 1]>>

NaN == [nan |-> TRUE, value |-> 0]

RECURSIVE DigitPrefix(_, _, _)
\* the value of the longest prefix of digits, NaN when it is empty
DigitPrefix(str, seen, acc) ==
    IF str # <<>> /\ IsDigit(Head(str))
    THEN DigitPrefix(Tail(str), TRUE, 10 * acc + DigitValue(Head(str)))
    ELSE IF seen THEN [nan |-> FALSE, value |-> acc] ELSE NaN

\* Number.parseInt(str, 10): an optional sign, then the leading digits;
\* what follows them is ignored
parseInt(str) ==
    IF str # <<>> /\ Head(str) = "-"
    THEN LET p == DigitPrefix(Tail(str), FALSE, 0)
         IN  IF p.nan THEN NaN ELSE [nan |-> FALSE, value |-> 0 - p.value]
    ELSE DigitPrefix(str, FALSE, 0)

RECURSIVE Split(_, _)
\* str.split(":"), cur being the part read so far
Split(str, cur) ==
    IF str = <<>> THEN <<cur>>
    ELSE IF Head(str) = ":" THEN <<cur>> \o Split(Tail(str), <<>>)
    ELSE Split(Tail(str), Append(cur, Head(str)))

\* str.startsWith(prefix)
StartsWith(str, prefix) ==
    Len(str) >= Len(prefix) /\ SubSeq(str, 1, Len(prefix)) = prefix

DailyPrefix == <<"usage", ":", "daily", ":">>
TopPrefix == <<"usage", ":", "top", ":">>

NoPrewarm == [op |-> "none", args |-> <<>>]
Daily(d) == [op |-> "daily", args |-> <<d>>]
Top(h, l) == [op |-> "top", args |-> <<h, l>>]

\* `usage:daily:${days}` and `usage:top:${hours}:${limit}`
Fingerprint(c) ==
    IF c.op = "daily" THEN DailyPrefix \o numberToString(c.args[1])
    ELSE TopPrefix \o numberToString(c.args[1]) \o <<":">> \o numberToString(c.args[2])

\* prewarmByCacheKey: the prewarm call the key leads to, if any
ParseCacheKey(cacheKey) ==
    IF StartsWith(cacheKey, DailyPrefix)
    THEN LET days == parseInt(SubSeq(cacheKey, Len(DailyPrefix) + 1, Len(cacheKey)))
         IN  IF ~days.nan THEN Daily(days.value) ELSE NoPrewarm
    ELSE IF StartsWith(cacheKey, TopPrefix)
    THEN LET parts == Split(SubSeq(cacheKey, Len(TopPrefix) + 1, Len(cacheKey)), <<>>)
         IN  IF Len(parts) = 2
             THEN LET hours == parseInt(parts[1])
                      limit == parseInt(parts[2])
                  IN  IF ~hours.nan /\ ~limit.nan THEN Top(hours.value, limit.value)
                      ELSE NoPrewarm
             ELSE NoPrewarm
    ELSE NoPrewarm

\* the characters of the keys that no analytics call built
KeyChars == {"1", "7", ":", "x"}

RECURSIVE StringsUpTo(_)
StringsUpTo(n) ==
    IF n = 0 THEN {<<>>}
    ELSE LET shorter == StringsUpTo(n - 1)
         IN  shorter \cup {Append(str, ch) : str \in shorter, ch \in KeyChars}

OtherKeys ==
    {prefix \o rest : prefix \in {DailyPrefix, TopPrefix, <<"usage", ":">>},
                      rest \in StringsUpTo(MaxRest)}

PrewarmCalls ==
    {Daily(d) : d \in 0..MaxArg} \cup {Top(h, l) : h \in 0..MaxArg, l \in {0, 3, MaxArg}}

NoHotKey == [pc |-> "idle", key |-> <<>>, built |-> NoPrewarm, triggered |-> NoPrewarm]

\* getHotCacheKeys returns the key an analytics call was tracked under
hotKeyOfCall(c) ==
    /\ hot.pc \in {"idle", "done"}
    /\ hot' = [pc |-> "hot", key |-> Fingerprint(c), built |-> c, triggered |-> NoPrewarm]
    /\ UNCHANGED nonPrewarmKeyVars

\* getHotCacheKeys returns a key found under cache:hits:* that no call built
hotKeyOther(key) ==
    /\ hot.pc \in {"idle", "done"}
    /\ hot' = [pc |-> "hot", key |-> key, built |-> NoPrewarm, triggered |-> NoPrewarm]
    /\ UNCHANGED nonPrewarmKeyVars

\* await this.prewarmByCacheKey(cacheKey)
prewarmByCacheKey ==
    /\ hot.pc = "hot"
    /\ hot' = [hot EXCEPT !.pc = "done", !.triggered = ParseCacheKey(hot.key)]
    /\ UNCHANGED nonPrewarmKeyVars

InitPrewarmKey == hot = NoHotKey

NextPrewarmKey ==
    \/ \E c \in PrewarmCalls : hotKeyOfCall(c)
    \/ \E key \in OtherKeys : hotKeyOther(key)
    \/ prewarmByCacheKey

(***************************************************************************)
(* Startup: startServer and the static pre-warm set                        *)
(***************************************************************************)
\* commonDays and commonQueries
StaticSet == [daily |-> <<7, 30>>, top |-> <<<<24, 3>>, <<24, 10>>, <<168, 10>>>>]
Loops == {"daily", "top"}

\* how clientService.prewarm... ends: it returns, or it rethrows the error of
\* the durable-store query or of the cache write
PrewarmOutcomes == {"returned", "query", "cache write"}

\* a loop that gives up at the first entry that fails
AfterEntryStopsOnError(loop, i, outcome) ==
    IF outcome = "returned" THEN i + 1 ELSE Len(StaticSet[loop]) + 1

\* the try/catch inside the for loop: the next entry, whatever the outcome
AfterEntry(loop, i, outcome) == i + 1

NoBoot == [pc |-> "init", enabled |-> FALSE, listened |-> FALSE,
           next |-> [daily |-> 1, top |-> 1],
           outcomes |-> [daily |-> <<>>, top |-> <<>>]]

\* startServer up to the pre-warm: initializeDatabase and redisService.connect
startServer(enabled, connected) ==
    /\ boot.pc = "init"
    /\ boot' = [boot EXCEPT !.enabled = enabled,
                            !.pc = IF ~connected THEN "exit"
                                   ELSE IF enabled THEN "prewarm" ELSE "listen"]
    /\ UNCHANGED nonStartupVars

\* one turn of the loop of prewarmDailyUsage() or prewarmTopClients(); the
\* two loops run side by side under Promise.allSettled
prewarmEntry(loop, outcome) ==
    /\ boot.pc = "prewarm"
    /\ boot.next[loop] <= Len(StaticSet[loop])
    /\ boot' = [boot EXCEPT !.outcomes[loop] = Append(@, outcome),
                            !.next[loop] = AfterEntry(loop, @, outcome)]
    /\ UNCHANGED nonStartupVars

\* both loops have ended: allSettled resolves and prewarmAll returns
prewarmAllReturns ==
    /\ boot.pc = "prewarm"
    /\ \A loop \in Loops : boot.next[loop] > Len(StaticSet[loop])
    /\ boot' = [boot EXCEPT !.pc = "listen"]
    /\ UNCHANGED nonStartupVars

\* app.listen(env.PORT)
appListen ==
    /\ boot.pc = "listen"
    /\ boot' = [boot EXCEPT !.pc = "listening", !.listened = TRUE]
    /\ UNCHANGED nonStartupVars

\* await redisService.subscribe("api:log:new", ...): when it throws, the
\* catch of startServer ends the process
subscribeLogs(subscribed) ==
    /\ boot.pc = "listening"
    /\ boot' = [boot EXCEPT !.pc = IF subscribed THEN "serving" ELSE "exit"]
    /\ UNCHANGED nonStartupVars

InitStartup == boot = NoBoot

NextStartup ==
    \/ \E enabled, connected \in BOOLEAN : startServer(enabled, connected)
    \/ \E loop \in Loops, outcome \in PrewarmOutcomes : prewarmEntry(loop, outcome)
    \/ prewarmAllReturns
    \/ appListen
    \/ \E subscribed \in BOOLEAN : subscribeLogs(subscribed)

(***************************************************************************)
(* The two clients of the KV gateway and disconnect()                      *)
(* A client is named by the connection it holds: "primary" or "replica".   *)
(***************************************************************************)
Connections == {"primary", "replica"}

NoGateway == [pc |-> "idle", writeClient |-> "null", readClient |-> "null",
              isConnected |-> FALSE, connects |-> 0,
              quits |-> [c \in Connections |-> 0],
              calls |-> 0, last |-> "none"]

\* connectDirectly: the read client is the write client when no replica is
\* configured
connectDirectly(replica) ==
    /\ gw.pc = "idle"
    /\ gw.connects < MaxConnects
    /\ gw' = [NoGateway EXCEPT !.writeClient = "primary",
                               !.readClient = IF replica THEN "replica" ELSE "primary",
                               !.isConnected = TRUE,
                               !.connects = gw.connects + 1]
    /\ UNCHANGED nonGatewayVars

\* disconnect() up to its first await: writeClient.quit(), and writeClient
\* set to null when it resolves.  A quit sent to a client that was quit
\* before may be rejected (resolved = FALSE): the catch rethrows.
disconnectWrite(resolved) ==
    /\ gw.pc = "idle"
    /\ gw.calls < MaxDisconnects
    /\ IF gw.writeClient = "null"
       THEN gw' = [gw EXCEPT !.pc = "read", !.last = "running", !.calls = @ + 1]
       ELSE LET c == gw.writeClient
                ok == gw.quits[c] = 0 \/ resolved
            IN  gw' = [gw EXCEPT !.quits[c] = @ + 1,
                                 !.calls = @ + 1,
                                 !.writeClient = IF ok THEN "null" ELSE @,
                                 !.pc = IF ok THEN "read" ELSE "idle",
                                 !.last = IF ok THEN "running" ELSE "thrown"]
    /\ UNCHANGED nonGatewayVars

\* the rest of disconnect(): `this.readClient && this.readClient !==
\* this.writeClient`, readClient.quit(), readClient = null, isConnected = false
disconnectRead(resolved) ==
    /\ gw.pc = "read"
    /\ IF gw.readClient # "null" /\ gw.readClient # gw.writeClient
       THEN LET c == gw.readClient
                ok == gw.quits[c] = 0 \/ resolved
            IN  gw' = [gw EXCEPT !.quits[c] = @ + 1,
                                 !.readClient = IF ok THEN "null" ELSE @,
                                 !.isConnected = IF ok THEN FALSE ELSE @,
                                 !.pc = "idle",
                                 !.last = IF ok THEN "resolved" ELSE "thrown"]
       ELSE gw' = [gw EXCEPT !.isConnected = FALSE, !.pc = "idle", !.last = "resolved"]
    /\ UNCHANGED nonGatewayVars

InitGateway == gw = NoGateway

NextGateway ==
    \/ \E replica \in BOOLEAN : connectDirectly(replica)
    \/ \E resolved \in BOOLEAN : disconnectWrite(resolved)
    \/ \E resolved \in BOOLEAN : disconnectRead(resolved)

(***************************************************************************)
(* Properties of the KV gateway                                            *)
(***************************************************************************)
\* C9: once the clients have reconnected on their own, within the permitted
\* attempts, gateway operations succeed again without a manual connect():
\* no operation is refused as "not connected" while both clients are ready
C9_ReconnectRestoresOps ==
    lastOp.result = "not connected" => ~lastOp.allReady

(***************************************************************************)
(* Properties of the rate limiter                                          *)
(***************************************************************************)
\* the ceiling L_c that applies to client c
CeilingOf(c) == EffectiveLimit(CeilingArg(c))

\* the entries of c's bucket inside the window that ends at time t
InWindow(c, t) == {e \in zset[c] : e.score > t - WindowMs}

RECURSIVE AllowedBetween(_, _, _)
\* the number of allowed decisions for c stamped with a time in lo..hi
AllowedBetween(c, lo, hi) ==
    IF lo > hi THEN 0
    ELSE (IF lo \in Times THEN rlAllowed[c][lo] ELSE 0) + AllowedBetween(c, lo + 1, hi)

\* C2: when every check of client c was decided by the KV store, the number
\* of allowed checks of c in any interval of length WindowMs is at most L_c
C2_AllowedWithinCeiling ==
    \A c \in Clients : c \notin rlFallback =>
        \A t \in Times : AllowedBetween(c, t - WindowMs + 1, t) <= CeilingOf(c)

\* C3: the trim-count-add script runs as one step, so with several processes
\* evaluating it, each with its own clock reading, a bucket never holds more
\* than L_c entries of the current window
C3_BucketWithinCeiling ==
    \A c \in Clients : \A t \in Times : Cardinality(InWindow(c, t)) <= CeilingOf(c)

\* a bucket is full while another process has a check of the same client in
\* flight that read its clock earlier
C3_Witness ==
    \E c \in Clients, p \in Procs :
        /\ Cardinality(InWindow(c, clock)) = CeilingOf(c)
        /\ rlPending[p].client = c
        /\ rlPending[p].now < clock
        /\ \E e \in zset[c] : e.score = clock

\* the oldest time stamp of an allowed check of c inside the window ending at t
OldestAllowed(c, t) ==
    CHOOSE x \in Times : /\ x > t - WindowMs
                         /\ rlAllowed[c][x] > 0
                         /\ \A y \in Times : (y > t - WindowMs /\ rlAllowed[c][y] > 0) => x <= y

\* what the claimed boundary asks of the result res of a check of c made at
\* time now: below L_c allowed checks in the half-open window it is allowed,
\* at L_c it is denied with resetAt = the oldest time stamp + WindowMs
BoundaryAtCeiling(c, now, res) ==
    LET prior == AllowedBetween(c, now - WindowMs + 1, now)
    IN  /\ prior < CeilingOf(c) => res.allowed
        /\ prior >= CeilingOf(c) =>
              ~res.allowed /\ res.resetAt = OldestAllowed(c, now) + WindowMs

\* every check of c so far went through the script and none is in flight
ScriptedOnly(c) ==
    /\ kvUp
    /\ c \notin rlFallback
    /\ \A p \in Procs : rlPending[p] = NoPending

\* the fallback store of process p holds every allowed check of c that is
\* still inside the window: no other path or process decided one of them
FallbackOnly(p, c) ==
    /\ ~kvUp
    /\ rlPending[p] = NoPending
    /\ Len(FilterAfter(inMemoryStore[p][c], clock - WindowMs)) =
           AllowedBetween(c, clock - WindowMs + 1, clock)

\* C11: starting from an empty bucket with ceiling L, the L-th check is
\* allowed and the (L+1)-th is denied with reset_at = oldest time stamp + W,
\* and a check made at exactly oldest + W is allowed again, on the scripted
\* path and on the in-process fallback path: in every state a check made now
\* is decided that way
C11_BoundaryAtCeiling ==
    \A c \in Clients :
        /\ ScriptedOnly(c) =>
              \A rnd \in 1..RandVals :
                  BoundaryAtCeiling(c, clock,
                      scriptResult(luaScript(zset[c], clock, WindowMs, CeilingOf(c), rnd),
                                   CeilingOf(c)))
        /\ \A p \in Procs : FallbackOnly(p, c) =>
              BoundaryAtCeiling(c, clock, checkRateLimitInMemory(inMemoryStore[p][c], clock))

(***************************************************************************)
(* Properties of the HTTP chain                                            *)
(***************************************************************************)
ActiveCallers == {c \in Callers : Registered[c].isActive}

\* the rate limiter decided the request just answered, through the KV store
\* (kv = TRUE) or through the in-process fallback (kv = FALSE)
DecidedFor(c, kv) ==
    /\ lastResp.client = c
    /\ lastResp.limiter.check \in {"allowed", "denied"}
    /\ lastResp.limiter.kv = kv

\* C4: with the KV store reachable, the ceiling enforced on POST /logs is the
\* caller's own rate_limit: a request is answered 201 while fewer than
\* rate_limit requests of the caller were allowed in the window, and the next
\* one is answered 429 with X-RateLimit-Remaining = 0
C4_OwnCeilingEnforced ==
    \A c \in Clients :
        (DecidedFor(c, TRUE) /\ c \notin rlFallback /\ lastResp.route = "POST /logs") =>
            IF lastResp.limiter.prior >= Registered[c].rateLimit
            THEN lastResp.status = 429 /\ lastResp.limiter.remaining = 0
            ELSE lastResp.status = 201

\* C5: a GET /usage/daily or GET /usage/top request that carries only a valid
\* JWT of an active caller reaches the rate limiter and the handler; it is not
\* answered 401
C5_JwtAloneSuffices ==
    (/\ lastResp.route \in {"GET /usage/daily", "GET /usage/top"}
     /\ lastResp.jwt \in ActiveCallers
     /\ lastResp.key = "none")
        => lastResp.limiter.check # "none" /\ lastResp.status \in {200, 429}

\* the request just answered carried a credential of a caller that is not active
InactiveCredential ==
    /\ lastResp.route # "none"
    /\ \/ lastResp.jwt \in Callers \ ActiveCallers
       \/ lastResp.key \in Callers \ ActiveCallers

\* C19: a request with valid credentials (JWT or API key) of an inactive
\* caller is answered 403 and reaches neither the limiter nor the handler
C19_InactiveRejected403 ==
    InactiveCredential =>
        /\ lastResp.status = 403
        /\ lastResp.limiter.check = "none"
        /\ lastResp.rec = 0

\* C21: with some checks decided by the in-process fallback, the allowed
\* checks of one caller in any window number at most R times the ceiling for
\* R processes: the one server process of the chain, whose KV store comes and
\* goes, never allows more than L requests per window
C21_FallbackBoundedByReplicas ==
    \A c \in Clients : \A t \in Times :
        AllowedBetween(c, t - WindowMs + 1, t) <= ClientRateLimit(0)

\* the records the repository holds or has stored
Enqueued ==
    Range(batchQueue) \cup Range(durable) \cup {e.rec : e \in Range(memStore)}
        \cup UNION {Range(flushTask[t].logsToInsert) \cup Range(flushTask[t].inMemoryLogs) :
                        t \in FlushSlots}

\* C8: while the KV store is unavailable, a POST /logs of an authenticated
\* caller that is within its own limit is answered 201 and its record is
\* enqueued; a failed publish is logged, not propagated
C8_FailOpenOnKvOutage ==
    \A c \in Clients :
        (/\ DecidedFor(c, FALSE)
         /\ lastResp.route = "POST /logs"
         /\ lastResp.limiter.prior < Registered[c].rateLimit)
            => /\ lastResp.status = 201
               /\ lastResp.rec \in Enqueued
               /\ lastResp.publish \in {"sent", "failure logged"}

\* C10: rateLimitMiddleware calls the next handler exactly when the check
\* allowed the request or the limiter raised an error; a denied request is
\* answered 429 with Retry-After and code RATE_LIMIT_EXCEEDED and no later
\* handler runs for it
C10_NextExactlyWhenAllowedOrError ==
    /\ req.limiter.check # "none" =>
            req.limiter.next /\ req.limiter.check \in {"allowed", "error"}
    /\ lastResp.limiter.check # "none" =>
            /\ lastResp.limiter.next <=> lastResp.limiter.check \in {"allowed", "error"}
            /\ lastResp.limiter.next => lastResp.status \in {200, 201}
            /\ lastResp.limiter.check = "denied" =>
                    /\ lastResp.status = 429
                    /\ lastResp.limiter.retryAfter
                    /\ lastResp.limiter.code = "RATE_LIMIT_EXCEEDED"
                    /\ lastResp.rec = 0

\* a POST /logs request was denied by the limiter and answered 429 with
\* Retry-After
C10_Witness ==
    /\ lastResp.limiter.check = "denied"
    /\ lastResp.status = 429
    /\ lastResp.route = "POST /logs"
    /\ lastResp.limiter.retryAfter

(***************************************************************************)
(* Properties of the ingestion pipeline                                    *)
(***************************************************************************)
Records == 1..MaxRecords

\* addToBatch has accepted record r
Accepted(r) == r < nextRec

IsDurable(r) == r \in Range(durable)

DropReported(r) == r \in dropLog

InOverflow(r) == \E i \in 1..Len(memStore) : memStore[i].rec = r

\* callers can still submit records: the pipeline is not at the end of the
\* modelled submissions
CanSubmit == nextRec <= MaxRecords

\* C1: every record accepted by addToBatch is eventually written to the
\* durable store or named by a log entry saying it was dropped, once the
\* store's failures are over (in behaviours where callers can still submit)
C1_NoSilentLoss ==
    (<>[](db = DbUp) /\ []CanSubmit) =>
        \A r \in Records : Accepted(r) ~> (IsDurable(r) \/ DropReported(r))

\* C6: no call of addToBatch waits for the durable store: a flush that a
\* submit started is never in progress, not even for the call that brings
\* the pending batch to batchSize
C6_SubmitNeverWaits ==
    \A t \in FlushSlots : flushTask[t].trigger # "submit"

\* C7: once the store answers again, a record held by the overflow buffer
\* becomes durable, unless the store fails again first, also when no further
\* record is submitted (in behaviours where callers can still submit)
C7_OverflowDrains ==
    []CanSubmit =>
        \A r \in Records :
            (InOverflow(r) /\ db = DbUp) ~> (IsDurable(r) \/ db # DbUp)

\* the records of sequence s stand in the order they were submitted
InSubmitOrder(s) == \A i, j \in 1..Len(s) : i < j => s[i] < s[j]

\* logApiHit publishes a record's event once its addToBatch has returned: a
\* submit that still awaits the flush it triggered has not published yet
AwaitingPublish == {t \in FlushSlots : flushTask[t].trigger = "submit"}

\* C12: records keep their submission order: an earlier record precedes a
\* later one in the pending batch, it is never written to the durable store
\* after the later one, and its event is published first (no later record
\* has been submitted while an earlier one still waits to publish)
C12_SubmitOrderKept ==
    /\ InSubmitOrder(batchQueue)
    /\ InSubmitOrder(durable)
    /\ \A t \in AwaitingPublish :
           nextRec = flushTask[t].logsToInsert[Len(flushTask[t].logsToInsert)] + 1

\* C13: in getDailyUsage and getTopClients a failure of the KV store never
\* fails the response: the call fails only when the durable-store query does
C13_KvFailureNeverFails ==
    (lastCall.op \in GetOps /\ lastCall.status = "failure") => lastCall.cause = "query"

C15_PrewarmAlwaysWrites ==
    (lastCall.op \in PrewarmOps /\ lastCall.status = "returned") =>
        lastCall.entry = <<lastCall.result>>

\* step a of the shutdown was taken before step b
StepBefore(a, b) ==
    \E i, j \in 1..Len(proc.steps) :
        i < j /\ proc.steps[i] = a /\ proc.steps[j] = b

\* C16: a clean shutdown closes the live-subscriber server, stops the HTTP
\* listener, stops the ingestion timer and flushes the pending batch once,
\* and only then closes the connections and exits with 0: at exit 0 the
\* pending batch has been flushed
C16_FlushBeforeExit ==
    proc.exit = "0" =>
        /\ StepBefore("websocketService.close", "server.close")
        /\ StepBefore("server.close", "stopBatchProcessor")
        /\ StepBefore("stopBatchProcessor", "closeDatabase")
        /\ StepBefore("stopBatchProcessor", "redisService.disconnect")
        /\ batchQueue = <<>>

\* log r was posted after the open stream was opened
PostedSinceOpen(r) == sse.open /\ sse.since <= r /\ r < logId

\* C17: a subscriber with an open stream on channel "logs" eventually
\* receives `event: log:new` for every log posted after the stream opened
\* (while the KV store stays reachable)
C17_StreamReceivesLogNew ==
    []kvUp =>
        \A r \in 1..MaxLogs :
            (PostedSinceOpen(r) /\ sse.channel = "logs")
                ~> (Event("log:new", r) \in sse.events \/ ~sse.open)

\* the register calls for email e that were answered with status
AnsweredWith(e, status) ==
    {p \in RegCalls : reg[p].pc = "done" /\ reg[p].email = e /\ reg[p].status = status}

\* C18: under any interleaving of register calls with the same email at most
\* one record exists, at most one call is answered 201 and every other call
\* is answered 409
C18_EmailUnique ==
    \A e \in Emails :
        /\ clientRows[e] <= 1
        /\ Cardinality(AnsweredWith(e, 201)) <= 1
        /\ \A p \in RegCalls :
               (reg[p].pc = "done" /\ reg[p].email = e) => reg[p].status \in {201, 409}

\* the logs a flush that gives up puts into the overflow buffer one by one
ReAdded(t) ==
    IF flushTask[t].pc = "drain" THEN flushTask[t].inMemoryLogs
    ELSE flushTask[t].logsToInsert

\* flush t gives up in this step and re-adds its logs to the overflow buffer
ReAddStep(t) ==
    /\ flushTask[t].pc \in {"drain", "insert"}
    /\ flushTask'[t] # flushTask[t]
    /\ memStore' # memStore

\* the buffer after the step holds the newest max_size of its entries and
\* the re-added logs, and exactly the older ones were evicted (and reported)
EvictsOldest(t) ==
    LET all == SeqRecs(memStore) \o ReAdded(t)
        over == IF Len(all) > OverflowMax THEN Len(all) - OverflowMax ELSE 0
    IN  /\ SeqRecs(memStore') = SubSeq(all, over + 1, Len(all))
        /\ dropLog' \ dropLog = {all[i] : i \in 1..over}

\* C20: after any sequence of add, flush and cleanup, including the
\* record-by-record re-adds after a failed drain or a transient flush
\* failure, the overflow buffer holds at most max_size entries, and every
\* add to a full buffer evicts exactly the one oldest entry
C20_OverflowBounded ==
    /\ [](Len(memStore) <= OverflowMax)
    /\ [][\A t \in FlushSlots : ReAddStep(t) => EvictsOldest(t)]_vars

\* a re-add onto the full buffer has evicted its oldest entry
C20_Witness ==
    /\ Len(memStore) = OverflowMax
    /\ dropLog # {}
    /\ \A r \in dropLog : r < memStore[1].rec

\* a record is submitted in this step
SubmitStep == nextRec' = nextRec + 1

\* flush slot t starts a flushBatch in this step
FlushStarts(t) == flushTask[t].pc = "idle" /\ flushTask'[t].pc # "idle"

\* C22: a submit that leaves fewer than batch_size records pending starts no
\* flush; the submit that brings the pending batch to batch_size starts
\* exactly one flush, which takes every pending record including its own
C22_BatchSizeTriggersOneFlush ==
    [][SubmitStep =>
        IF Len(batchQueue) + 1 < BatchSize
        THEN /\ \A t \in FlushSlots : ~FlushStarts(t)
             /\ batchQueue' = Append(batchQueue, nextRec)
        ELSE /\ batchQueue' = <<>>
             /\ \E t \in FlushSlots :
                   /\ FlushStarts(t)
                   /\ flushTask'[t].trigger = "submit"
                   /\ flushTask'[t].logsToInsert = Append(batchQueue, nextRec)
                   /\ \A u \in FlushSlots \ {t} : ~FlushStarts(u)]_vars

\* from the empty batch exactly batch_size records were submitted, with no
\* timer tick, and the last submit's flush holds all of them
C22_Witness ==
    /\ nextRec = BatchSize + 1
    /\ batchQueue = <<>>
    /\ \E t \in FlushSlots :
          /\ flushTask[t].trigger = "submit"
          /\ flushTask[t].logsToInsert = [i \in 1..BatchSize |-> i]
    /\ durable = <<>>

\* C23: after a shutdown signal the process always exits: with code 0 when
\* every step of the shutdown completed, and with code 1 through the 10 s
\* deadline when a step stalls
C23_AlwaysExits ==
    /\ (proc.pc # "running") ~> ~Alive
    /\ [](proc.exit = "0" => StepBefore("closeDatabase", "redisService.disconnect"))
    /\ [](proc.exit = "1" => proc.armed)

\* C24: at most one flush of the pipeline is in progress at any time: a timer
\* tick or a submit reaching the batch size while a flush awaits the store
\* starts no second bulk insert or overflow drain
C24_OneFlushAtATime ==
    Cardinality({t \in FlushSlots : flushTask[t].pc # "idle"}) <= 1

\* the bulk insert of flush t fails for good in this step
InsertGivesUp(t) ==
    /\ flushTask[t].pc = "insert"
    /\ flushTask'[t].pc = "idle"
    /\ db # DbUp

\* s ends with the sequence tail
EndsWith(s, tail) ==
    /\ Len(tail) <= Len(s)
    /\ SubSeq(s, Len(s) - Len(tail) + 1, Len(s)) = tail

\* C25: when the bulk insert of toWrite fails after retries each record ends
\* in one place: on a transient error toWrite moves to the overflow buffer
\* and the pending batch is unchanged; otherwise, below the safety cap,
\* toWrite is prepended to the pending batch; otherwise it is dropped and a
\* log entry is written
C25_FailedBatchPlacement ==
    [][\A t \in FlushSlots : InsertGivesUp(t) =>
        LET toWrite == flushTask[t].logsToInsert
        IN  /\ durable' = durable
            /\ IF isTransientDatabaseError(db)
               THEN /\ batchQueue' = batchQueue
                    /\ Len(toWrite) <= OverflowMax => EndsWith(SeqRecs(memStore'), toWrite)
                    /\ Range(toWrite) \subseteq Range(SeqRecs(memStore')) \cup dropLog'
               ELSE IF Len(batchQueue) < RequeueCap
               THEN /\ batchQueue' = toWrite \o batchQueue
                    /\ memStore' = memStore /\ dropLog' = dropLog
               ELSE /\ batchQueue' = batchQueue /\ memStore' = memStore
                    /\ dropLog' = dropLog \cup Range(toWrite)]_vars

\* a failed batch was re-queued ahead of the pending records, and a later
\* failed batch met the full pending batch and was dropped
C25_Witness ==
    /\ Len(batchQueue) >= RequeueCap
    /\ dropLog # {}
    /\ memStore = <<>>
    /\ durable = <<>>
    /\ ~isTransientDatabaseError(db) /\ db # DbUp
    /\ \A t \in FlushSlots : flushTask[t].pc = "idle"

\* C26: withRetry with maxRetries = N calls the action at most N + 1 times,
\* sleeps min(base * 2^(n-1), cap) before the n-th retry, resolves with the
\* first success without a further call, rejects with the action's own error
\* when the call after the N-th retry fails too, and rethrows an error that
\* is not retryable after the call that raised it, without a delay
C26_RetryHarness ==
    /\ rt.calls <= rt.opts.maxRetries + 1
    /\ Len(rt.delays) <= rt.opts.maxRetries
    /\ \A n \in 1..Len(rt.delays) :
           /\ rt.delays[n] <= rt.opts.maxDelayMs
           /\ rt.delays[n] <= rt.opts.baseDelayMs * pow2(n - 1)
           /\ rt.delays[n] \in {rt.opts.maxDelayMs, rt.opts.baseDelayMs * pow2(n - 1)}
    /\ rt.pc = "resolved" => rt.calls = Len(rt.errors) + 1
    /\ rt.pc \in {"calling", "sleeping", "rejected"} => rt.calls = Len(rt.errors)
    /\ rt.pc = "rejected" =>
           /\ rt.thrown = rt.errors[Len(rt.errors)]
           /\ \/ rt.calls = rt.opts.maxRetries + 1
              \/ rt.opts.listed /\ ~IsRetryable(rt.thrown)
    /\ (rt.opts.listed /\ rt.errors # <<>> /\ ~IsRetryable(rt.errors[1])) =>
           rt.pc = "rejected" /\ rt.calls = 1 /\ rt.delays = <<>>

\* a call was rejected after N + 1 failed invocations, its last delay capped
C26_Witness ==
    /\ rt.pc = "rejected"
    /\ rt.opts.maxRetries > 0
    /\ rt.calls = rt.opts.maxRetries + 1
    /\ rt.delays[Len(rt.delays)] = rt.opts.maxDelayMs
    /\ rt.delays[1] = rt.opts.baseDelayMs

\* the n-th error fn raised was followed by a sleep and another call
Retried(n) == Len(rt.delays) >= n

\* C27: the harness and the classifier agree: while retries are left, an
\* error raised under withDatabaseRetry is retried if and only if
\* isTransientDatabaseError calls it transient
C27_HarnessAgreesWithClassifier ==
    \A n \in 1..Len(rt.errors) :
        n <= rt.opts.maxRetries =>
            (Retried(n) <=> isTransientDatabaseError(rt.errors[n]))

\* the bucket of c in the KV store and the timestamps process p keeps for c
\* record the same allowed checks
SameHistory(p, c) ==
    \A t \in Times :
        Cardinality({e \in zset[c] : e.score = t})
            = Cardinality({i \in 1..Len(inMemoryStore[p][c]) : inMemoryStore[p][c][i] = t})

\* the two limiters give the same answer
SameAnswer(a, b) ==
    /\ a.allowed = b.allowed
    /\ a.current = b.current
    /\ a.remaining = b.remaining
    /\ a.resetAt = b.resetAt

\* C28: the fallback limiter is equivalent to the scripted one: from the same
\* history of checks, the empty one included, a check of caller c at the
\* same time with the same ceiling gets the same allowed, current, remaining
\* and reset time from checkRateLimitInMemory as from the script
C28_FallbackEquivalent ==
    \A p \in Procs : \A c \in Clients :
        SameHistory(p, c) =>
            \A rnd \in 1..RandVals :
                LET limit == EffectiveLimit(CeilingArg(c))
                IN  SameAnswer(scriptResult(luaScript(zset[c], clock, WindowMs, limit, rnd),
                                            limit),
                               checkRateLimitInMemory(inMemoryStore[p][c], clock))

\* C29: two allowed checks of one caller with the same time stamp add two
\* distinct entries, so the bucket of a caller the script alone has decided
\* holds as many entries of the current window as checks were allowed in it
C29_BucketCountsAllowed ==
    \A c \in Clients :
        c \notin rlFallback =>
            Cardinality(InWindow(c, clock)) = AllowedBetween(c, clock - WindowMs + 1, clock)

\* C30: trackAccess sets the expiry only when its increment created the
\* key: no step prolongs the TTL of a counter that has one, so the counter
\* is gone windowSeconds after its creation however often it is accessed
C30_ExpiryOnlyOnCreation ==
    [][\A k \in CounterKeys :
           (counters[k].ttl > 0 /\ counters'[k].value > 0) =>
               counters'[k].ttl <= counters[k].ttl]_vars

\* the last call was answered with the payload read from the cache
ServedFromCache ==
    lastCall.status = "success" /\ lastCall.data # <<>> /\ lastCall.result = <<>>

\* C31: a getDailyUsage or getTopClients call of the service with hit
\* tracking makes exactly one tracker call for its key: a hit if and only if
\* it answered from the cache with a non-empty payload, else a miss; and
\* whether the tracker recorded it or failed, the call fails only when the
\* durable-store query fails
C31_OneAccessPerCall ==
    (lastCall.op \in GetOps /\ lastCall.guarded) =>
        /\ Len(lastCall.tracked) = 1
        /\ lastCall.tracked[1].access = "hit" <=> ServedFromCache
        /\ lastCall.tracked[1].access = "miss" <=> ~ServedFromCache
        /\ lastCall.status = "failure" => lastCall.cause = "query"
        /\ ServedFromCache => lastCall.data = getJSON(lastCall.entry)

\* a call answered from the cache although its tracker call failed
C31_Witness ==
    /\ lastCall.op \in GetOps /\ lastCall.guarded
    /\ ServedFromCache
    /\ lastCall.tracked = <<[access |-> "hit", recorded |-> FALSE]>>

\* the socket is to get the log:new event of message m
Addressed(s, m) ==
    m.valid /\ sockets[s].rooms \cap {"logs", ClientRoom(m.clientId)} # {}

\* C32: fan-out keeps the order of api:log:new for every subscriber: the
\* events a socket has are in the order the messages were received, and the
\* callback takes the messages one by one in that order, skips one that does
\* not parse and hands every other one to each socket of its rooms
C32_FanOutInOrder ==
    /\ [](\A s \in Sockets : \A i, j \in 1..Len(sockets[s].inbox) :
              i < j => sockets[s].inbox[i] <= sockets[s].inbox[j])
    /\ [][wsChan' # wsChan /\ wsCount' = wsCount =>
             /\ wsChan # <<>> /\ wsChan' = Tail(wsChan)
             /\ \A s \in Sockets :
                    LET m == Head(wsChan)
                        got == sockets'[s].inbox
                    IN  IF Addressed(s, m)
                        THEN Len(got) > Len(sockets[s].inbox) /\ got[Len(got)] = m.id
                        ELSE sockets'[s] = sockets[s]]_vars

\* every message was handled, and a socket of the room logs got the event
\* of the first and of the third message, the second having been skipped
C32_Witness ==
    /\ wsChan = <<>> /\ wsCount >= 3
    /\ \E s \in Sockets :
           "logs" \in sockets[s].rooms /\ sockets[s].inbox = <<1, 3>>

\* C33: from its authentication until it disconnects a socket stays joined
\* to all-clients and to the room of its caller: subscribe and unsubscribe
\* messages change the membership of usage:daily, usage:top and logs only
C33_BaseRoomsKept ==
    \A s \in Sockets :
        sockets[s] # NoSocket =>
            {"all-clients", ClientRoom(sockets[s].clientId)} \subseteq sockets[s].rooms

\* C38: for each message received on api:log:new a socket gets at most one
\* log:new event, also when it is in the room logs and in its caller's room
C38_AtMostOneEventPerMessage ==
    \A s \in Sockets : \A i, j \in 1..Len(sockets[s].inbox) :
        i # j => sockets[s].inbox[i] # sockets[s].inbox[j]

\* the string is <int>: one digit or more and nothing else
IsIntString(str) == str # <<>> /\ \A i \in 1..Len(str) : IsDigit(str[i])

\* the key is usage:daily:<int>
MatchesDaily(key) ==
    StartsWith(key, DailyPrefix) /\ IsIntString(SubSeq(key, Len(DailyPrefix) + 1, Len(key)))

\* the key is usage:top:<int>:<int>
MatchesTop(key) ==
    /\ StartsWith(key, TopPrefix)
    /\ LET parts == Split(SubSeq(key, Len(TopPrefix) + 1, Len(key)), <<>>)
       IN  Len(parts) = 2 /\ IsIntString(parts[1]) /\ IsIntString(parts[2])

\* C34: fingerprint and parse are inverse: the key built for daily(d) or
\* top(h, l) triggers that prewarm call, and a hot key that is neither
\* usage:daily:<int> nor usage:top:<int>:<int> triggers no prewarm call
C34_ParseInvertsFingerprint ==
    hot.pc = "done" =>
        /\ hot.built # NoPrewarm => hot.triggered = hot.built
        /\ (~MatchesDaily(hot.key) /\ ~MatchesTop(hot.key)) => hot.triggered = NoPrewarm

\* C35: a failing startup pre-warm is not fatal: once the pre-warm has
\* begun the server gets to listen, whatever the prewarm calls do, and by
\* then every entry of the static set has been attempted
C35_PrewarmNotFatal ==
    /\ (boot.pc = "prewarm") ~> boot.listened
    /\ []((boot.enabled /\ boot.pc \in {"listen", "listening", "serving"}) =>
              \A loop \in Loops : Len(boot.outcomes[loop]) = Len(StaticSet[loop]))
    /\ [](boot.pc = "exit" => (boot.listened \/ boot.outcomes = NoBoot.outcomes))

\* the server listens after every entry of the static set failed, some on
\* the durable store and some on the cache
C35_Witness ==
    /\ boot.pc = "listening" /\ boot.enabled
    /\ boot.outcomes.daily = <<"query", "cache write">>
    /\ boot.outcomes.top = <<"cache write", "query", "query">>

\* C39: when disconnect() of a connected gateway has ended, each
\* connection was quit exactly once, disconnect resolved, the gateway is not
\* connected and both clients are cleared
C39_QuitOnceEach ==
    (gw.pc = "idle" /\ gw.last \in {"resolved", "thrown"}) =>
        /\ gw.last = "resolved"
        /\ \A c \in Connections : gw.quits[c] <= 1
        /\ ~gw.isConnected
        /\ gw.writeClient = "null" /\ gw.readClient = "null"

\* C36: the pending batch is bounded: after any sequence of submits and
\* failed flushes its length never exceeds the re-queue cap plus batch size
C36_PendingBounded == Len(batchQueue) <= RequeueCap + BatchSize

\* how often record r stands in sequence s
Occurrences(s, r) == Cardinality({i \in 1..Len(s) : s[i] = r})

RECURSIVE InFlightCopies(_, _)
\* how often record r is held by the flushes in progress in slots
InFlightCopies(slots, r) ==
    IF slots = {} THEN 0
    ELSE LET t == CHOOSE x \in slots : TRUE
         IN  Occurrences(flushTask[t].logsToInsert, r)
                + Occurrences(flushTask[t].inMemoryLogs, r)
                + InFlightCopies(slots \ {t}, r)

\* how often record r is held by the pipeline and the durable store together
Copies(r) ==
    Occurrences(batchQueue, r) + InFlightCopies(FlushSlots, r)
        + Occurrences(SeqRecs(memStore), r) + Occurrences(durable, r)

\* C37: no record is written to the durable store more than once: each
\* submitted record is held in at most one of pending batch, a flush in
\* progress, overflow buffer and durable store, and there only once
C37_AtMostOnePlace ==
    \A r \in 1..(nextRec - 1) : Copies(r) <= 1

\* one record is durable, one was put back into the overflow buffer by a
\* failed drain, and a flush in progress holds a third one
C37_Witness ==
    /\ C37_AtMostOnePlace
    /\ durable # <<>>
    /\ memStore # <<>>
    /\ \E t \in FlushSlots : flushTask[t].pc = "insert"
                                /\ flushTask[t].logsToInsert # <<>>

\* C40: once a stream is closed, both of its timers are cancelled and
\* nothing more is written to it, not even by an update callback that was
\* awaiting an analytics query when the close happened
C40_NoWriteAfterClose == lateWrites = {}

Init == InitIngest /\ InitRate /\ InitHttp /\ InitKv /\ InitAnalytics /\ InitShutdown /\ InitStream /\ InitRegister
        /\ InitRetry /\ InitTracker /\ InitWs
        /\ InitPrewarmKey /\ InitStartup /\ InitGateway

Spec == Init /\ [][NextIngest]_vars

\* the ingestion pipeline with its timers and pending inserts running on
SpecFair ==
    /\ Init
    /\ [][NextIngest]_vars
    /\ WF_vars(BatchTimerTick)
    /\ \A t \in FlushSlots : WF_vars(flushInMemoryLogsAttempt(t))
    /\ \A t \in FlushSlots : WF_vars(flushBatchAttempt(t))

SpecRate == Init /\ [][NextRate]_vars

SpecHttp == Init /\ [][NextHttp]_vars

SpecKv == Init /\ [][NextKv]_vars

SpecAnalytics == Init /\ [][NextAnalytics]_vars

SpecShutdown == Init /\ [][NextShutdown]_vars

\* the intervals of an open stream keep firing and published messages are
\* delivered to the subscriber
SpecStream ==
    /\ Init
    /\ [][NextStream]_vars
    /\ WF_vars(heartbeatInterval)
    /\ WF_vars(updateInterval)
    /\ WF_vars(\E success \in BOOLEAN : dailyUsageAwaited(success))
    /\ WF_vars(\E success \in BOOLEAN : topClientsAwaited(success))
    /\ WF_vars(onLogMessage)

SpecRegister == Init /\ [][NextRegister]_vars

SpecOverflow == Init /\ [][NextOverflow]_vars

\* the armed 10 s timer fires; no step of the shutdown is bound to complete
SpecShutdownFair ==
    /\ Init
    /\ [][NextShutdown]_vars
    /\ WF_vars(forcedShutdown)

SpecRetry == Init /\ [][NextRetry]_vars

SpecTracker == Init /\ [][NextTracker]_vars

SpecWs == Init /\ [][NextWs]_vars

SpecPrewarmKey == Init /\ [][NextPrewarmKey]_vars

SpecStartup == Init /\ [][NextStartup]_vars /\ WF_vars(NextStartup)

SpecGateway == Init /\ [][NextGateway]_vars

SpecRequeue == Init /\ [][NextRequeue]_vars
====
